---- MODULE Spec2Model ----
(***************************************************************************)
(* Model of the rejoice recording tool: the transcript store               *)
(* (src/rejoice/transcript/manager.py), the recording session              *)
(* (src/rejoice/cli/commands.py) and the realtime transcription worker     *)
(* (src/rejoice/transcription/realtime.py).                                *)
(*                                                                         *)
(* File content is a sequence of tokens.  A token is one character ("-",   *)
(* newline, a letter) or one whole "key: value" line of YAML frontmatter;  *)
(* every token is a record [k, v, q] so that tokens compare.               *)
(***************************************************************************)
EXTENDS Integers, Sequences, FiniteSets, TLC

\* ------------------------------------------------------------------ bounds
\* number of store calls made on one transcript in SpecStore
MaxOps == 3

\* ------------------------------------------------------------------ text
Tok(k, v, q) == [k |-> k, v |-> v, q |-> q]
\* the character "-"
Dash == Tok("-", "", "")
\* the character "\n"
NL == Tok("nl", "", "")
\* a letter of transcribed text
Ch(c) == Tok("ch", c, "")
\* a frontmatter line "k: v" written in YAML style q (plain, 'sq', "dq")
IsFieldLine(t) == t.k \notin {"-", "nl", "ch"}

\* the "---" marker
Delim == <<Dash, Dash, Dash>>

\* str.startswith / str.endswith
StartsWith(s, p) == Len(s) >= Len(p) /\ SubSeq(s, 1, Len(p)) = p
EndsWith(s, p) == Len(s) >= Len(p) /\ SubSeq(s, Len(s) - Len(p) + 1, Len(s)) = p

\* str.index(p, from), 1-based; 0 stands for ValueError
IndexFrom(s, p, from) ==
    LET hits == {i \in from..(Len(s) - Len(p) + 1) : SubSeq(s, i, i + Len(p) - 1) = p}
    IN  IF hits = {} THEN 0 ELSE CHOOSE i \in hits : \A j \in hits : i <= j

\* str.lstrip("\n") / str.rstrip("\n")
LStripNL(s) ==
    LET keep == {i \in 1..Len(s) : s[i] # NL}
    IN  IF keep = {} THEN <<>>
        ELSE SubSeq(s, CHOOSE i \in keep : \A j \in keep : i <= j, Len(s))
RStripNL(s) ==
    LET keep == {i \in 1..Len(s) : s[i] # NL}
    IN  IF keep = {} THEN <<>>
        ELSE SubSeq(s, 1, CHOOSE i \in keep : \A j \in keep : i >= j)

\* ------------------------------------------------------------------ YAML
\* yaml.safe_load yields a dict exactly when the block is "key: value" lines
YamlIsMapping(block) ==
    /\ \A i \in 1..Len(block) : block[i] = NL \/ IsFieldLine(block[i])
    /\ \A i \in 1..(Len(block) - 1) : ~(IsFieldLine(block[i]) /\ IsFieldLine(block[i + 1]))

\* a block yaml.safe_load reads as a falsy value that is no mapping (0, [],
\* false, ''): `yaml.safe_load(block) or {}` makes it the empty dict
YamlIsFalsy(block) == block = <<Ch("0")>>

\* data[key] = value on an insertion-ordered dict
DictSet(data, key, value) ==
    IF \E i \in 1..Len(data) : data[i].k = key
    THEN [i \in 1..Len(data) |->
            IF data[i].k = key THEN [k |-> key, v |-> value] ELSE data[i]]
    ELSE Append(data, [k |-> key, v |-> value])

RECURSIVE YamlLoadLines(_, _)
YamlLoadLines(lines, data) ==
    IF lines = <<>> THEN data
    ELSE YamlLoadLines(Tail(lines), DictSet(data, Head(lines).k, Head(lines).v))

\* yaml.safe_load(frontmatter_block) or {}: the values, without their quoting
safe_load(block) == YamlLoadLines(SelectSeq(block, IsFieldLine), <<>>)

\* the style yaml.safe_dump gives a string scalar: quoted when the plain
\* form would not load back as the same string
DumpStyle(v) == IF v = "" \/ v = "000001" THEN "sq" ELSE "plain"

\* yaml.safe_dump(data, default_flow_style=False, sort_keys=False)
RECURSIVE safe_dump(_)
safe_dump(data) ==
    IF data = <<>> THEN <<>>
    ELSE <<Tok(Head(data).k, Head(data).v, DumpStyle(Head(data).v)), NL>>
            \o safe_dump(Tail(data))

\* ------------------------------------------------------------------ transcript content
generate_frontmatter(transcript_id, status, language) ==
    Delim \o
    <<NL, Tok("id", transcript_id, "sq"),
      NL, Tok("type", "voice-note", "plain"),
      NL, Tok("status", status, "plain"),
      NL, Tok("created", "2025-01-20 10:30", "plain"),
      NL, Tok("language", language, "plain"),
      NL, Tok("tags", "[]", "plain"),
      NL, Tok("summary", "", "dq"),
      NL>> \o Delim \o <<NL, NL>>

\* raw.index("\n", 3) and raw.index("\n---", first_sep_end)
FirstSepEnd(raw) == IndexFrom(raw, <<NL>>, 4)
SecondSepStart(raw) ==
    IF FirstSepEnd(raw) = 0 THEN 0
    ELSE IndexFrom(raw, <<NL>> \o Delim, FirstSepEnd(raw))
\* raw[first_sep_end + 1 : second_sep_start]
FrontmatterBlock(raw) == SubSeq(raw, FirstSepEnd(raw) + 1, SecondSepStart(raw) - 1)
\* raw[second_sep_start + len("\n---\n") :]
RawBody(raw) == SubSeq(raw, SecondSepStart(raw) + 5, Len(raw))

\* the checks that make update_status / update_language raise TranscriptError
FrontmatterOk(raw) ==
    /\ StartsWith(raw, Delim)
    /\ FirstSepEnd(raw) # 0
    /\ SecondSepStart(raw) # 0
    /\ (YamlIsMapping(FrontmatterBlock(raw)) \/ YamlIsFalsy(FrontmatterBlock(raw)))

\* "---\n{yaml_block}\n---\n\n" + body.lstrip("\n")
Rebuild(data, body) ==
    Delim \o <<NL>> \o RStripNL(safe_dump(data)) \o <<NL>> \o Delim \o <<NL, NL>>
        \o LStripNL(body)

\* new_content of update_status(filepath, status)
update_status(raw, status) ==
    Rebuild(DictSet(safe_load(FrontmatterBlock(raw)), "status", status), RawBody(raw))

\* a copy of update_status that was not adapted: it still writes data["status"]
update_language_WritesStatus(raw, language) ==
    Rebuild(DictSet(safe_load(FrontmatterBlock(raw)), "status", language), RawBody(raw))

\* new_content of update_language(filepath, language)
update_language(raw, language) ==
    Rebuild(DictSet(safe_load(FrontmatterBlock(raw)), "language", language), RawBody(raw))

\* updated of append_to_transcript(filepath, text)
append_to_transcript(existing, text) ==
    (IF EndsWith(existing, <<NL>>) THEN existing ELSE existing \o <<NL>>) \o text \o <<NL>>

\* the value of a frontmatter field, "" when absent
FieldOf(raw, key) ==
    LET data == safe_load(FrontmatterBlock(raw))
        hit == {i \in 1..Len(data) : data[i].k = key}
    IN  IF hit = {} THEN "" ELSE data[CHOOSE i \in hit : TRUE].v

\* ------------------------------------------------------------------ state
VARIABLES
    \* transcript store: one transcript path and the temp file of the call in flight
    file,       \* content readable at the transcript path
    tmp,        \* content of the NamedTemporaryFile of the call in flight
    wpc,        \* position inside write_file_atomic: idle, tmpopen, tmpclosed
    call,       \* the store call in flight
    nOps,       \* store calls started so far
    pre,        \* content at the path when the last call started
    post,       \* content the last call set out to write
    appended,   \* texts of the append_to_transcript calls that returned
    lastEnd,    \* how the last call ended: none, ok, crash, raise
    \* recording session: start_recording_session and its threads
    pc,               \* statement the main thread is at
    cfg,              \* the configuration snapshot load_config() returned
    sfile,            \* content of the session's transcript file
    sfileState,       \* absent, present, deleted
    audioFile,        \* the captured audio file: none, temp, archived, deleted
    wav,              \* wav_file: none, open, closed
    stream,           \* the capture stream: none, active, stopped, closed
    stopCalls,        \* calls of stream.stop()
    closeCalls,       \* calls of stream.close()
    frames,           \* frames the audio callback wrote to wav_file
    recording_active, \* threading.Event
    enter_pressed,    \* threading.Event
    cancelled,        \* local flag of the main thread
    pending,          \* an exception is propagating through the finally block
    inputT,           \* input thread: notstarted, blocked, done, raised
    displayT,         \* display thread: notstarted, running, done, raised
    trans,            \* final transcription pass: none, ok, failed
    hist,             \* what has happened so far (set of event names)
    outcome,          \* running, returned, raised
    \* writers of transcript files: threads appending under a lock, and the
    \* session's main thread writing to the session's own transcript
    wfiles,     \* content of each transcript path
    lock,       \* the threading.Lock: the set of threads holding it
    tpc,        \* per thread: start, locked, read, written, done
    tnew,       \* per thread: the content it computed from what it read
    ostep,      \* how many of the session's mutations have been written
    obusy,      \* the session has read its file for its next mutation
    onew,       \* the content the session computed from what it read
    \* transcript directory: create_transcript calls, get_next_id, deletions
    dexists,    \* save_dir exists
    dir,        \* the entries of save_dir: name |-> [kind, content]
    cpc,        \* per caller of create_transcript: start, loop, check, write, touch, returned, raised
    cid,        \* per caller: transcript_id of the current attempt
    cdate,      \* per caller: date_str of the current attempt
    attempts,   \* per caller: the local counter attempts
    issued,     \* the IDs create_transcript has returned, in order of return
    clobbered,  \* names at which a create_transcript call replaced an existing file
    ndel,       \* transcript files deleted so far
    overlap,    \* a create_transcript call began while another was under way
    probe,      \* the last direct get_next_id call: what it saw and returned
    \* realtime transcription worker: the worker thread, add_audio_chunk on
    \* the audio thread, stop() on the main thread
    is_running,   \* threading.Event
    audio_queue,  \* Queue of chunks
    accumulated_audio, \* the accumulation buffer
    wkpc,         \* worker thread: notstarted, test, get, transcribe, append, done, raised
    ctx,          \* where _process_accumulated_audio was called from: loop, flush
    window,       \* the audio handed to the transcriber in the current call
    nseg,         \* segments the transcriber has yielded in the current call
    segtext,      \* the stripped text of the segment being handled
    apc,          \* add_audio_chunk: idle, put
    chunk,        \* the chunk add_audio_chunk was called with
    nchunks,      \* add_audio_chunk calls made so far
    spc,          \* stop(): idle, join, returned
    timedOut,     \* the join of stop() ended with the thread alive
    accepted,     \* ids of the chunks that passed the is_running test
    passed,       \* ids of the chunks handed to the transcriber
    yielded,      \* non-empty segment texts the transcriber has yielded
    wappended,    \* texts appended to the transcript
    nfail,        \* transcriber failures so far
    \* migrate_filenames on the transcript directory `dir`
    result,       \* the dict the last migrate_filenames call returned
    before,       \* the directory as that call found it
    \* archive_audio_file: the audio/ subdirectory
    audio,        \* archived audio files: name -> bytes
    clock,        \* datetime.now(), in seconds
    ntemp,        \* temporary audio files recorded so far
    lastArchive,  \* the last call: its temp file, the path returned, the temp file after
    lost,         \* bytes that were archived and are no longer in audio/
    \* realtime worker: further start() calls, finalize() on the caller's thread
    nstart,       \* start() calls made after the first
    fpc,          \* finalize(): idle, transcribe, done
    fwindow,      \* the audio finalize() handed to the transcriber
    fseg,         \* segments the transcriber has yielded to finalize()
    appendedBy    \* <<chunk id, transcription call>> of the calls that appended a segment

storeVars == <<file, tmp, wpc, call, nOps, pre, post, appended, lastEnd>>
sessVars == <<pc, cfg, sfile, sfileState, audioFile, wav, stream, stopCalls, closeCalls,
              frames, recording_active, enter_pressed, cancelled, pending, inputT,
              displayT, trans, hist, outcome>>
writeVars == <<wfiles, lock, tpc, tnew, ostep, obusy, onew>>
dirVars == <<dexists, dir, cpc, cid, cdate, attempts, issued, clobbered, ndel, overlap,
            probe>>
workVars == <<is_running, audio_queue, accumulated_audio, wkpc, ctx, window, nseg, segtext,
             apc, chunk, nchunks, spc, timedOut, accepted, passed, yielded, wappended,
             nfail>>
migVars == <<result, before>>
archVars == <<audio, clock, ntemp, lastArchive, lost>>
lifeVars == <<nstart, fpc, fwindow, fseg, appendedBy>>
utilVars == <<migVars, archVars, lifeVars>>
vars == <<storeVars, sessVars, writeVars, dirVars, workVars, utilVars>>

\* the file create_transcript writes: frontmatter of a new recording
NewTranscript == generate_frontmatter("000001", "recording", "auto")

\* ------------------------------------------------------------------ session: initial state
\* frames the audio callback delivers in one session
MaxFrames == 2

\* the configuration snapshots: language "auto" or fixed; whether the audio
\* deletion prompt is skipped (auto_delete or not keep_after_transcription)
Configs == [language : {"auto", "es"}, skip_prompt : BOOLEAN]

\* a session that opens the audio sink and the stream before it creates the transcript
StartupOrder_AudioFirst ==
    <<"tempfile", "wave_open", "record_audio", "create_transcript",
      "start_input", "start_display", "wait">>

\* a session that starts its input and display threads before the capture
StartupOrder_ThreadsFirst ==
    <<"create_transcript", "tempfile", "wave_open", "start_input", "start_display",
      "record_audio", "wait">>

\* the statements of start_recording_session up to the wait loop, in order
StartupOrder ==
    <<"create_transcript", "tempfile", "wave_open", "record_audio",
      "start_input", "start_display", "wait">>

SessInitWith(c) ==
    /\ pc = StartupOrder[1]
    /\ cfg = c
    /\ sfile = <<>>
    /\ sfileState = "absent"
    /\ audioFile = "none"
    /\ wav = "none"
    /\ stream = "none"
    /\ stopCalls = 0
    /\ closeCalls = 0
    /\ frames = 0
    /\ recording_active = FALSE
    /\ enter_pressed = FALSE
    /\ cancelled = FALSE
    /\ pending = FALSE
    /\ inputT = "notstarted"
    /\ displayT = "notstarted"
    /\ trans = "none"
    /\ hist = {}
    /\ outcome = "running"

SessInit == \E c \in Configs : SessInitWith(c)
\* the session variables while another component is explored
SessIdle == SessInitWith([language |-> "auto", skip_prompt |-> FALSE])

\* ------------------------------------------------------------------ writers: initial state
\* threads that append to one transcript under its lock
NThreads == 3
Threads == 1..NThreads

\* the transcript of the thread-safety test: "---\nid: '000001'\n---\n\n"
TestTranscript == Delim \o <<NL, Tok("id", "000001", "sq"), NL>> \o Delim \o <<NL, NL>>

\* the transcript paths: the one the locking threads were given, and the one
\* create_transcript returned to the session
Paths == {"shared", "session"}

WriteInit ==
    /\ wfiles = [p \in Paths |-> IF p = "session" THEN NewTranscript ELSE TestTranscript]
    /\ lock = {}
    /\ tpc = [t \in Threads |-> "start"]
    /\ tnew = [t \in Threads |-> <<>>]
    /\ ostep = 0
    /\ obusy = FALSE
    /\ onew = <<>>

\* ------------------------------------------------------------------ directory: names, initial state
\* width of a transcript ID, and the retry ceiling of create_transcript
ID_WIDTH == 6
max_attempts == 1000

\* the two concurrent callers of create_transcript, one call each
Callers == {1, 2}
\* transcript files the user deletes
MaxDeletes == 1
\* the small IDs int() has to read back, besides those next to 10^ID_WIDTH
MaxId == 8

\* s.zfill(width)
RECURSIVE zfill(_, _)
zfill(s, width) == IF Len(s) >= width THEN s ELSE zfill("0" \o s, width)
\* str(n).zfill(ID_WIDTH)
IdStr(n) == zfill(ToString(n), ID_WIDTH)
\* the first number that does not fit ID_WIDTH digits
IdLimit == 10 ^ ID_WIDTH
\* int(id_str), for an id_str of ID_WIDTH digits
IntOf(id_str) == CHOOSE n \in (0..MaxId) \cup {IdLimit - 1, IdLimit} : IdStr(n) = id_str

\* datetime.now().strftime("%Y%m%d") on the day the calls are made
Dates == {"20250102"}

\* a file name: "new" is <id>_transcript_<date>.md, "old" is
\* transcript_<date>_<id>.md, "other" is any other name
Name(shape, id_str, date_str) == [shape |-> shape, id |-> id_str, date |-> date_str]
\* a parser that knows the current shape only
Matches_NewOnly(name) ==
    name.shape = "new" /\ Len(name.id) = ID_WIDTH /\ Len(name.date) = 8

\* TRANSCRIPT_FILENAME_PATTERN_OLD / _NEW match: \d{8} and \d{ID_WIDTH}
Matches(name) ==
    name.shape \in {"old", "new"} /\ Len(name.id) = ID_WIDTH /\ Len(name.date) = 8

File(content) == [kind |-> "file", content |-> content]
SubDir == [kind |-> "dir", content |-> <<>>]

\* what a directory may hold before the calls: a legacy-shape and a
\* current-shape transcript, a file that is no transcript, a subdirectory
\* with a transcript-like name, the transcript with the largest ID
NotesFile == Name("other", "notes", "")
SubDirName == Name("old", IdStr(4), "20250101")
OldFile == Name("old", IdStr(1), "20250101")
NewFile == Name("new", IdStr(2), "20250102")
LastFile == Name("new", IdStr(IdLimit - 1), "20250101")
InitDirs ==
    {{}, {OldFile}, {NewFile}, {NotesFile, SubDirName},
     {OldFile, NewFile, NotesFile, SubDirName}, {LastFile}}
InitEntry(name) == IF name = SubDirName THEN SubDir ELSE File(<<Ch("x")>>)

NoProbe == [called |-> FALSE, exists |-> FALSE, dir |-> <<>>, out |-> ""]

DirInitWith(e, names) ==
    /\ dexists = e
    /\ dir = [n \in names |-> InitEntry(n)]
    /\ cpc = [p \in Callers |-> "start"]
    /\ cid = [p \in Callers |-> ""]
    /\ cdate = [p \in Callers |-> ""]
    /\ attempts = [p \in Callers |-> 0]
    /\ issued = <<>>
    /\ clobbered = {}
    /\ ndel = 0
    /\ overlap = FALSE
    /\ probe = NoProbe

DirInit ==
    \E e \in BOOLEAN, names \in InitDirs :
        (e \/ names = {}) /\ DirInitWith(e, names)
\* the directory variables while another component is explored
DirIdle == DirInitWith(FALSE, {})

\* ------------------------------------------------------------------ worker: initial state
\* add_audio_chunk calls of one recording
MaxChunks == 3
\* int(min_chunk_size_seconds * sample_rate), in samples
min_chunk_samples == 2
\* segments one transcribe_file call yields at most
MaxSegs == 2
\* transcriber failures of one recording
MaxFails == 1
\* len(audio_chunk)
ChunkSizes == {1, 2}
NoChunk == [id |-> 0, len |-> 0]

\* RealtimeTranscriptionWorker.__init__
WorkInit ==
    /\ is_running = FALSE
    /\ audio_queue = <<>>
    /\ accumulated_audio = <<>>
    /\ wkpc = "notstarted"
    /\ ctx = "loop"
    /\ window = <<>>
    /\ nseg = 0
    /\ segtext = <<>>
    /\ apc = "idle"
    /\ chunk = NoChunk
    /\ nchunks = 0
    /\ spc = "idle"
    /\ timedOut = FALSE
    /\ accepted = {}
    /\ passed = {}
    /\ yielded = <<>>
    /\ wappended = <<>>
    /\ nfail = 0
\* the worker variables while another component is explored
WorkIdle == WorkInit

\* ------------------------------------------------------------------ migration, archive: initial state
\* migrate_filenames has not been called
NoResult ==
    [called |-> FALSE, dry_run |-> FALSE, renamed |-> 0, failed |-> 0,
     operations |-> <<>>, errors |-> <<>>]

\* a second legacy-shape file; NewFile is the name it migrates to
OldFile2 == Name("old", IdStr(2), "20250102")
\* the current-shape name of OldFile
NewFile1 == Name("new", IdStr(1), "20250101")
\* the entries a directory may hold when migrate_filenames is called
MigNames == {OldFile, OldFile2, NewFile1, NewFile, NotesFile, SubDirName}
\* every file has a content of its own
MigEntry(name) ==
    IF name = SubDirName THEN SubDir ELSE File(<<Ch(name.shape), Ch(name.id)>>)

MigIdle ==
    /\ result = NoResult
    /\ before = <<>>

\* the stems of the transcripts whose audio is archived
Stems == {"000054_transcript_20251220", "000055_transcript_20251220"}
\* seconds the clock advances while the calls are made
MaxTicks == 2
\* temporary audio files handed to archive_audio_file
MaxTemps == 3
\* datetime.now().strftime("%Y%m%d_%H%M%S")
Timestamp(t) == "20251221_14302" \o ToString(t)
\* archive_audio_file has not been called
NoArchive == [temp |-> 0, path |-> "", temp_exists |-> FALSE]
\* the audio/ directory before the calls: empty, or holding the audio of an
\* earlier recording under the first transcript's name (bytes 0)
InitAudio == {<<>>, [n \in {"000054_transcript_20251220.wav"} |-> 0]}

ArchInitWith(a) ==
    /\ audio = a
    /\ clock = 0
    /\ ntemp = 0
    /\ lastArchive = NoArchive
    /\ lost = {}
ArchIdle == ArchInitWith(<<>>)

\* start() has been called at most once, finalize() not yet
\* start() calls after the first
MaxStarts == 1
LifeInit ==
    /\ nstart = 0
    /\ fpc = "idle"
    /\ fwindow = <<>>
    /\ fseg = 0
    /\ appendedBy = {}

\* the migration, archive and lifecycle variables while another component
\* is explored
UtilIdle == MigIdle /\ ArchIdle /\ LifeInit

\* ------------------------------------------------------------------ transcript store
\* inputs of the store calls
Texts == {<<>>, <<Ch("a")>>, <<Ch("b")>>}
Statuses == {"completed", "cancelled"}
Languages == {"en"}
NoCall == [name |-> "none", text |-> <<>>, value |-> ""]

StoreInit ==
    /\ file = NewTranscript
    /\ tmp = <<>>
    /\ wpc = "idle"
    /\ call = NoCall
    /\ nOps = 0
    /\ pre = NewTranscript
    /\ post = NewTranscript
    /\ appended = <<>>
    /\ lastEnd = "none"

\* a writer that renames the temp file without waiting for the write to end
TmpFlushed_Unchecked(t, content) == TRUE

\* the with-block closes the temp file after tmp_file.write(content) has
\* returned and the buffer is flushed: os.replace sees the whole content
TmpFlushed(t, content) == t = content

\* a call reads the file, computes the new content and enters write_file_atomic:
\* NamedTemporaryFile(dir=target_dir, delete=False) creates an empty temp file
StartWrite(c, content) ==
    /\ nOps < MaxOps
    /\ nOps' = nOps + 1
    /\ call' = c
    /\ pre' = file
    /\ post' = content
    /\ tmp' = <<>>
    /\ wpc' = "tmpopen"
    /\ UNCHANGED <<file, appended, lastEnd>>
    /\ UNCHANGED <<sessVars, writeVars, dirVars, workVars, utilVars>>

AppendCall ==
    \E text \in Texts :
        /\ wpc = "idle"
        /\ StartWrite([name |-> "append", text |-> text, value |-> ""],
                      append_to_transcript(file, text))

UpdateStatusCall ==
    \E status \in Statuses :
        /\ wpc = "idle"
        /\ FrontmatterOk(file)
        /\ StartWrite([name |-> "status", text |-> <<>>, value |-> status],
                      update_status(file, status))

UpdateLanguageCall ==
    \E language \in Languages :
        /\ wpc = "idle"
        /\ FrontmatterOk(file)
        /\ StartWrite([name |-> "language", text |-> <<>>, value |-> language],
                      update_language(file, language))

\* tmp_file.write(content): the bytes reach the temp file prefix by prefix
TmpWrite ==
    /\ wpc = "tmpopen"
    /\ \E n \in (Len(tmp) + 1)..Len(post) : tmp' = SubSeq(post, 1, n)
    /\ UNCHANGED <<file, wpc, call, nOps, pre, post, appended, lastEnd>>
    /\ UNCHANGED <<sessVars, writeVars, dirVars, workVars, utilVars>>

\* leaving the with-block closes the temp file once everything is written
TmpClose ==
    /\ wpc = "tmpopen"
    /\ TmpFlushed(tmp, post)
    /\ wpc' = "tmpclosed"
    /\ UNCHANGED <<file, tmp, call, nOps, pre, post, appended, lastEnd>>
    /\ UNCHANGED <<sessVars, writeVars, dirVars, workVars, utilVars>>

\* os.replace(tmp_name, target_path), then the call returns
Replace ==
    /\ wpc = "tmpclosed"
    /\ file' = tmp
    /\ tmp' = <<>>
    /\ wpc' = "idle"
    /\ appended' = IF call.name = "append" THEN Append(appended, call.text) ELSE appended
    /\ lastEnd' = "ok"
    /\ UNCHANGED <<call, nOps, pre, post>>
    /\ UNCHANGED <<sessVars, writeVars, dirVars, workVars, utilVars>>

\* tmp_file.write raises (disk full, I/O error): the call raises, the temp
\* file is left behind, the target is not touched
WriteFails ==
    /\ wpc = "tmpopen"
    /\ wpc' = "idle"
    /\ lastEnd' = "raise"
    /\ UNCHANGED <<file, tmp, call, nOps, pre, post, appended>>
    /\ UNCHANGED <<sessVars, writeVars, dirVars, workVars, utilVars>>

\* the process dies inside write_file_atomic, during the write or between
\* the write and os.replace; a later process goes on calling the store
Crash ==
    /\ wpc \in {"tmpopen", "tmpclosed"}
    /\ wpc' = "idle"
    /\ lastEnd' = "crash"
    /\ UNCHANGED <<file, tmp, call, nOps, pre, post, appended>>
    /\ UNCHANGED <<sessVars, writeVars, dirVars, workVars, utilVars>>

StoreNext ==
    \/ AppendCall
    \/ UpdateStatusCall
    \/ UpdateLanguageCall
    \/ TmpWrite
    \/ TmpClose
    \/ Replace
    \/ WriteFails
    \/ Crash

InitStore == StoreInit /\ SessIdle /\ WriteInit /\ DirIdle /\ WorkIdle /\ UtilIdle

SpecStore == InitStore /\ [][StoreNext]_vars

\* ------------------------------------------------------------------ claims: store
\* C1: whatever sequence of append / update_status / update_language calls
\* is made, and wherever inside write_file_atomic a crash or a write
\* failure strikes, the content at the transcript path is the complete
\* content before the call or the complete content after it.
C1_AtomicWrite == file = pre \/ file = post

\* a crash or failure struck while the temp file held a proper part of the
\* new content
C1_Witness ==
    /\ lastEnd \in {"crash", "raise"}
    /\ wpc = "idle"
    /\ Len(tmp) > 0
    /\ Len(tmp) < Len(post)
    /\ post # pre

RECURSIVE LinesOf(_)
LinesOf(texts) ==
    IF texts = <<>> THEN <<>> ELSE Head(texts) \o <<NL>> \o LinesOf(Tail(texts))

\* C10: after any sequence of append_to_transcript calls, interleaved with
\* update_status / update_language calls, the body (what follows the closing
\* marker and the blank line) is the appended texts in call order, each on
\* its own line, none lost, duplicated or rewritten.
C10_AppendOrder == RawBody(file) = <<NL>> \o LinesOf(appended)

\* the metadata fields of a transcript
Fields == {"id", "type", "status", "created", "language", "tags", "summary"}

\* C11: an update_status call changes only the status field and an
\* update_language call only the language field: every other metadata field
\* keeps its value and the body after the call is identical to the body
\* before it, whatever the body is.
C11_OnlyOneFieldChanges ==
    [][(call.name \in {"status", "language"} /\ file' # file)
        => /\ \A key \in Fields \ {call.name} : FieldOf(file', key) = FieldOf(file, key)
           /\ RawBody(file') = RawBody(file)]_vars

\* ------------------------------------------------------------------ store: files of any content
\* what may be at a transcript path when update_status / update_language is
\* called: a new transcript, text without frontmatter, an empty file, "---"
\* alone, a block that is never closed, a block that is a plain scalar, a
\* block that is the number 0
StoredFiles ==
    {NewTranscript,
     <<Ch("x")>>,
     <<>>,
     Delim,
     Delim \o <<NL, Tok("id", "000001", "sq"), NL>>,
     Delim \o <<NL, Ch("x"), NL>> \o Delim \o <<NL, Ch("b")>>,
     Delim \o <<NL, Ch("0"), NL>> \o Delim \o <<NL, Ch("b")>>}

StoreAnyInit ==
    \E raw \in StoredFiles :
        /\ file = raw
        /\ tmp = <<>>
        /\ wpc = "idle"
        /\ call = NoCall
        /\ nOps = 0
        /\ pre = raw
        /\ post = raw
        /\ appended = <<>>
        /\ lastEnd = "none"

\* update_status / update_language read the file and raise TranscriptError
\* before write_file_atomic is reached
UpdateRaises ==
    \E name \in {"status", "language"} :
        /\ wpc = "idle"
        /\ ~FrontmatterOk(file)
        /\ nOps < MaxOps
        /\ nOps' = nOps + 1
        /\ call' = [name |-> name, text |-> <<>>, value |-> ""]
        /\ pre' = file
        /\ post' = file
        /\ lastEnd' = "raise"
        /\ UNCHANGED <<file, tmp, wpc, appended>>
        /\ UNCHANGED <<sessVars, writeVars, dirVars, workVars, utilVars>>

StoreAnyNext ==
    \/ StoreNext
    \/ UpdateRaises

InitStoreAny == StoreAnyInit /\ SessIdle /\ WriteInit /\ DirIdle /\ WorkIdle /\ UtilIdle

SpecStoreAny == InitStoreAny /\ [][StoreAnyNext]_vars

\* no pair of metadata markers, or a block between them that is not
\* "key: value" lines and not empty
Malformed(raw) ==
    \/ ~StartsWith(raw, Delim)
    \/ FirstSepEnd(raw) = 0
    \/ SecondSepStart(raw) = 0
    \/ ~YamlIsMapping(FrontmatterBlock(raw))

\* C18: an update_status or update_language call on a file that has no pair
\* of metadata markers, or whose metadata block is not a mapping, raises
\* TranscriptError and leaves the content of the file as it was.
C18_MalformedRejected ==
    [][(wpc = "idle" /\ Malformed(file) /\ nOps' = nOps + 1
            /\ call'.name \in {"status", "language"})
        => (lastEnd' = "raise" /\ wpc' = "idle" /\ file' = file)]_vars

\* ------------------------------------------------------------------ recording session
\* new_content of update_audio_file(filepath, relative_path): the frontmatter
\* field audio_file is set the way update_status sets status
update_audio_file(raw, audio_path) ==
    Rebuild(DictSet(safe_load(FrontmatterBlock(raw)), "audio_file", audio_path), RawBody(raw))

\* the statement that follows `step` on the way to the wait loop
After(step) ==
    StartupOrder[(CHOOSE i \in 1..Len(StartupOrder) : StartupOrder[i] = step) + 1]

\* what the transcription capability yields: the stripped texts of its segments
SegmentLists == {<<>>, <<<<>>, <<Ch("a")>>>>, <<<<Ch("a")>>, <<Ch("b")>>>>}
\* the language the model reports under auto-detection ("" is None)
Detected == {"", "en"}

\* segments, as collected by the loop: the non-empty texts
NonEmpty(t) == t # <<>>
\* " ".join(segments)
RECURSIVE JoinSpace(_)
JoinSpace(segs) ==
    IF segs = <<>> THEN <<>>
    ELSE IF Len(segs) = 1 THEN Head(segs)
    ELSE Head(segs) \o <<Ch(" ")>> \o JoinSpace(Tail(segs))

\* Transcriber.last_language after transcribe_file
LastLanguage(configured, detected) == IF configured = "auto" THEN detected ELSE configured

\* the transcript after the try-block of the final pass has run to its end
AfterFinalPass(raw, segs, last_language) ==
    LET texts == SelectSeq(segs, NonEmpty)
        a == IF texts # <<>> THEN append_to_transcript(raw, JoinSpace(texts)) ELSE raw
    IN  IF last_language # "" THEN update_language(a, last_language) ELSE a

\* a prompt that looks at the archive only
OfferDeletion_ArchivedOnly(transcription_successful, archived) == archived

\* the audio deletion prompt is reached only after a successful pass that
\* archived the audio
OfferDeletion(transcription_successful, archived) == transcription_successful /\ archived

Running(step) == pc = step /\ outcome = "running"

\* create_transcript(save_dir): the file exists, status recording, when it returns
CreateTranscript ==
    /\ Running("create_transcript")
    /\ \/ /\ sfile' = NewTranscript
          /\ sfileState' = "present"
          /\ pc' = After(pc)
          /\ UNCHANGED outcome
       \/ /\ outcome' = "raised"
          /\ pc' = "done"
          /\ UNCHANGED <<sfile, sfileState>>
    /\ UNCHANGED <<cfg, audioFile, wav, stream, stopCalls, closeCalls, frames,
                   recording_active, enter_pressed, cancelled, pending, inputT,
                   displayT, trans, hist>>
    /\ UNCHANGED <<storeVars, writeVars, dirVars, workVars, utilVars>>

\* tempfile.NamedTemporaryFile(suffix=".wav", delete=False, dir=save_dir)
TempFile ==
    /\ Running("tempfile")
    /\ audioFile' = "temp"
    /\ pc' = After(pc)
    /\ UNCHANGED <<cfg, sfile, sfileState, wav, stream, stopCalls, closeCalls, frames,
                   recording_active, enter_pressed, cancelled, pending, inputT,
                   displayT, trans, hist, outcome>>
    /\ UNCHANGED <<storeVars, writeVars, dirVars, workVars, utilVars>>

\* wave.open(temp_audio_path, "wb"); recording_active.set()
WaveOpen ==
    /\ Running("wave_open")
    /\ wav' = "open"
    /\ recording_active' = TRUE
    /\ pc' = After(pc)
    /\ UNCHANGED <<cfg, sfile, sfileState, audioFile, stream, stopCalls, closeCalls,
                   frames, enter_pressed, cancelled, pending, inputT, displayT, trans,
                   hist, outcome>>
    /\ UNCHANGED <<storeVars, writeVars, dirVars, workVars, utilVars>>

\* stream = record_audio(_audio_callback, ...): a started stream, or RuntimeError
RecordAudio ==
    /\ Running("record_audio")
    /\ \/ /\ stream' = "active"
          /\ pc' = After(pc)
          /\ UNCHANGED outcome
       \/ /\ outcome' = "raised"
          /\ pc' = "done"
          /\ UNCHANGED stream
    /\ UNCHANGED <<cfg, sfile, sfileState, audioFile, wav, stopCalls, closeCalls, frames,
                   recording_active, enter_pressed, cancelled, pending, inputT,
                   displayT, trans, hist>>
    /\ UNCHANGED <<storeVars, writeVars, dirVars, workVars, utilVars>>

\* input_thread.start()
StartInput ==
    /\ Running("start_input")
    /\ inputT' = "blocked"
    /\ pc' = After(pc)
    /\ UNCHANGED <<cfg, sfile, sfileState, audioFile, wav, stream, stopCalls, closeCalls,
                   frames, recording_active, enter_pressed, cancelled, pending,
                   displayT, trans, hist, outcome>>
    /\ UNCHANGED <<storeVars, writeVars, dirVars, workVars, utilVars>>

\* display_thread.start()
StartDisplay ==
    /\ Running("start_display")
    /\ displayT' = "running"
    /\ pc' = After(pc)
    /\ UNCHANGED <<cfg, sfile, sfileState, audioFile, wav, stream, stopCalls, closeCalls,
                   frames, recording_active, enter_pressed, cancelled, pending, inputT,
                   trans, hist, outcome>>
    /\ UNCHANGED <<storeVars, writeVars, dirVars, workVars, utilVars>>

\* while not enter_pressed.is_set() and recording_active.is_set(): the loop ends
WaitExit ==
    /\ Running("wait")
    /\ ~(~enter_pressed /\ recording_active)
    /\ pc' = "clear_active"
    /\ UNCHANGED <<cfg, sfile, sfileState, audioFile, wav, stream, stopCalls, closeCalls,
                   frames, recording_active, enter_pressed, cancelled, pending, inputT,
                   displayT, trans, hist, outcome>>
    /\ UNCHANGED <<storeVars, writeVars, dirVars, workVars, utilVars>>

\* KeyboardInterrupt in the wait loop: cancelled = True, then the confirmation
Interrupt ==
    /\ Running("wait")
    /\ cancelled' = TRUE
    /\ hist' = hist \cup {"interrupt"}
    /\ pc' = "confirm_cancel"
    /\ UNCHANGED <<cfg, sfile, sfileState, audioFile, wav, stream, stopCalls, closeCalls,
                   frames, recording_active, enter_pressed, pending, inputT, displayT,
                   trans, outcome>>
    /\ UNCHANGED <<storeVars, writeVars, dirVars, workVars, utilVars>>

\* a session that goes back to recording when the user declines: the stop
\* event is re-armed and the wait loop entered again
ConfirmCancel_Rearms ==
    /\ Running("confirm_cancel")
    /\ \/ /\ hist' = hist \cup {"cancel_confirmed"}
          /\ pc' = "clear_active"
          /\ UNCHANGED <<cancelled, pending, enter_pressed>>
       \/ /\ cancelled' = FALSE
          /\ enter_pressed' = FALSE
          /\ hist' = hist \cup {"declined"}
          /\ pc' = "wait"
          /\ UNCHANGED pending
    /\ UNCHANGED <<cfg, sfile, sfileState, audioFile, wav, stream, stopCalls, closeCalls,
                   frames, recording_active, inputT, displayT, trans, outcome>>
    /\ UNCHANGED <<storeVars, writeVars, dirVars, workVars, utilVars>>

\* Confirm.ask("Cancel recording? ..."): yes, no, or a second Ctrl+C; in
\* every case control passes to the finally block
ConfirmCancel ==
    /\ Running("confirm_cancel")
    /\ \/ /\ hist' = hist \cup {"cancel_confirmed"}
          /\ UNCHANGED <<cancelled, pending>>
       \/ /\ cancelled' = FALSE
          /\ hist' = hist \cup {"declined"}
          /\ UNCHANGED pending
       \/ /\ pending' = TRUE
          /\ UNCHANGED <<cancelled, hist>>
    /\ pc' = "clear_active"
    /\ UNCHANGED <<cfg, sfile, sfileState, audioFile, wav, stream, stopCalls, closeCalls,
                   frames, recording_active, enter_pressed, inputT, displayT, trans,
                   outcome>>
    /\ UNCHANGED <<storeVars, writeVars, dirVars, workVars, utilVars>>

\* finally: recording_active.clear()
ClearActive ==
    /\ Running("clear_active")
    /\ recording_active' = FALSE
    /\ pc' = "set_enter"
    /\ UNCHANGED <<cfg, sfile, sfileState, audioFile, wav, stream, stopCalls, closeCalls,
                   frames, enter_pressed, cancelled, pending, inputT, displayT, trans,
                   hist, outcome>>
    /\ UNCHANGED <<storeVars, writeVars, dirVars, workVars, utilVars>>

\* enter_pressed.set()
SetEnter ==
    /\ Running("set_enter")
    /\ enter_pressed' = TRUE
    /\ pc' = "stream_stop"
    /\ UNCHANGED <<cfg, sfile, sfileState, audioFile, wav, stream, stopCalls, closeCalls,
                   frames, recording_active, cancelled, pending, inputT, displayT, trans,
                   hist, outcome>>
    /\ UNCHANGED <<storeVars, writeVars, dirVars, workVars, utilVars>>

\* try: stream.stop() ... except Exception: pass.  When stop() raises,
\* stream.close() in the same try is skipped
StreamStop ==
    /\ Running("stream_stop")
    /\ stopCalls' = stopCalls + 1
    /\ \/ /\ stream' = "stopped"
          /\ pc' = "stream_close"
          /\ UNCHANGED hist
       \/ /\ stream' \in {stream, "stopped"}
          /\ hist' = hist \cup {"stop_raised"}
          /\ pc' = "wav_close"
    /\ UNCHANGED <<cfg, sfile, sfileState, audioFile, wav, closeCalls, frames,
                   recording_active, enter_pressed, cancelled, pending, inputT,
                   displayT, trans, outcome>>
    /\ UNCHANGED <<storeVars, writeVars, dirVars, workVars, utilVars>>

\* stream.close(), an error swallowed
StreamClose ==
    /\ Running("stream_close")
    /\ closeCalls' = closeCalls + 1
    /\ \/ /\ stream' = "closed"
          /\ UNCHANGED hist
       \/ /\ stream' \in {stream, "closed"}
          /\ hist' = hist \cup {"close_raised"}
    /\ pc' = "wav_close"
    /\ UNCHANGED <<cfg, sfile, sfileState, audioFile, wav, stopCalls, frames,
                   recording_active, enter_pressed, cancelled, pending, inputT,
                   displayT, trans, outcome>>
    /\ UNCHANGED <<storeVars, writeVars, dirVars, workVars, utilVars>>

\* wav_file.close()
WavClose ==
    /\ Running("wav_close")
    /\ wav' = "closed"
    /\ pc' = "join_display"
    /\ UNCHANGED <<cfg, sfile, sfileState, audioFile, stream, stopCalls, closeCalls,
                   frames, recording_active, enter_pressed, cancelled, pending, inputT,
                   displayT, trans, hist, outcome>>
    /\ UNCHANGED <<storeVars, writeVars, dirVars, workVars, utilVars>>

\* a join without timeout: it returns only when the display thread has ended
JoinDisplay_Waits ==
    /\ Running("join_display")
    /\ displayT # "running"
    /\ hist' = hist \cup {"join"}
    /\ pc' = "after_finally"
    /\ UNCHANGED <<cfg, sfile, sfileState, audioFile, wav, stream, stopCalls, closeCalls,
                   frames, recording_active, enter_pressed, cancelled, pending, inputT,
                   displayT, trans, outcome>>
    /\ UNCHANGED <<storeVars, writeVars, dirVars, workVars, utilVars>>

\* display_thread.join(timeout=1.0): returns when the thread has ended or
\* the timeout has passed
JoinDisplay ==
    /\ Running("join_display")
    /\ hist' = hist \cup {"join"} \cup (IF displayT = "running" THEN {"join_timeout"} ELSE {})
    /\ pc' = "after_finally"
    /\ UNCHANGED <<cfg, sfile, sfileState, audioFile, wav, stream, stopCalls, closeCalls,
                   frames, recording_active, enter_pressed, cancelled, pending, inputT,
                   displayT, trans, outcome>>
    /\ UNCHANGED <<storeVars, writeVars, dirVars, workVars, utilVars>>

\* end of the finally block: a pending exception goes on to the caller;
\* otherwise `if cancelled:` picks the branch
AfterFinally ==
    /\ Running("after_finally")
    /\ IF pending
       THEN outcome' = "raised" /\ pc' = "done"
       ELSE /\ pc' = IF cancelled THEN "ask_delete" ELSE "archive"
            /\ UNCHANGED outcome
    /\ UNCHANGED <<cfg, sfile, sfileState, audioFile, wav, stream, stopCalls, closeCalls,
                   frames, recording_active, enter_pressed, cancelled, pending, inputT,
                   displayT, trans, hist>>
    /\ UNCHANGED <<storeVars, writeVars, dirVars, workVars, utilVars>>

\* Confirm.ask("Delete the partial transcript file?"): filepath.unlink(), or
\* update_status(filepath, "cancelled"); a Ctrl+C at the prompt raises
\* KeyboardInterrupt, which nothing here catches
AskDelete ==
    /\ Running("ask_delete")
    /\ \/ /\ sfileState' = "deleted"
          /\ pc' = "unlink_temp"
          /\ UNCHANGED <<sfile, outcome>>
       \/ /\ sfile' = update_status(sfile, "cancelled")
          /\ pc' = "unlink_temp"
          /\ UNCHANGED <<sfileState, outcome>>
       \/ /\ outcome' = "raised"
          /\ pc' = "done"
          /\ UNCHANGED <<sfile, sfileState>>
    /\ UNCHANGED <<cfg, audioFile, wav, stream, stopCalls, closeCalls, frames,
                   recording_active, enter_pressed, cancelled, pending, inputT,
                   displayT, trans, hist>>
    /\ UNCHANGED <<storeVars, writeVars, dirVars, workVars, utilVars>>

\* temp_audio_path.unlink(missing_ok=True); return filepath, transcript_id
UnlinkTemp ==
    /\ Running("unlink_temp")
    /\ audioFile' = "deleted"
    /\ pc' = "done"
    /\ outcome' = "returned"
    /\ UNCHANGED <<cfg, sfile, sfileState, wav, stream, stopCalls, closeCalls, frames,
                   recording_active, enter_pressed, cancelled, pending, inputT,
                   displayT, trans, hist>>
    /\ UNCHANGED <<storeVars, writeVars, dirVars, workVars, utilVars>>

\* archive_audio_file(temp_audio_path, filepath); update_audio_file(...)
Archive ==
    /\ Running("archive")
    /\ audioFile' = "archived"
    /\ sfile' = update_audio_file(sfile, "audio/000001.wav")
    /\ pc' = "transcribe"
    /\ UNCHANGED <<cfg, sfileState, wav, stream, stopCalls, closeCalls, frames,
                   recording_active, enter_pressed, cancelled, pending, inputT,
                   displayT, trans, hist, outcome>>
    /\ UNCHANGED <<storeVars, writeVars, dirVars, workVars, utilVars>>

\* what the session has seen of Transcriber.last_language (None leaves no trace)
Reported(last_language) ==
    IF last_language = "" THEN {} ELSE {"last_language_" \o last_language}

\* the try-block of the final pass: Transcriber(config.transcription) may
\* raise, transcribe_file may raise in model.transcribe (before last_language
\* is set) or between segments (after it is set); any exception is caught
\* and leaves transcription_successful False
Transcribe ==
    /\ Running("transcribe")
    /\ \/ /\ hist' = hist \cup {"transcriber"}
          /\ trans' = "failed"
          /\ UNCHANGED sfile
       \/ /\ hist' = hist \cup {"transcriber", "transcribe_file"}
          /\ trans' = "failed"
          /\ UNCHANGED sfile
       \/ \E detected \in Detected :
            /\ hist' = hist \cup {"transcriber", "transcribe_file"}
                            \cup Reported(LastLanguage(cfg.language, detected))
            /\ trans' = "failed"
            /\ UNCHANGED sfile
       \/ \E segs \in SegmentLists, detected \in Detected :
            /\ hist' = hist \cup {"transcriber", "transcribe_file"}
                            \cup Reported(LastLanguage(cfg.language, detected))
            /\ trans' = "ok"
            /\ sfile' = AfterFinalPass(sfile, segs, LastLanguage(cfg.language, detected))
    /\ pc' = "set_completed"
    /\ UNCHANGED <<cfg, sfileState, audioFile, wav, stream, stopCalls, closeCalls, frames,
                   recording_active, enter_pressed, cancelled, pending, inputT,
                   displayT, outcome>>
    /\ UNCHANGED <<storeVars, writeVars, dirVars, workVars, utilVars>>

\* update_status(filepath, "completed")
SetCompleted ==
    /\ Running("set_completed")
    /\ sfile' = update_status(sfile, "completed")
    /\ pc' = "audio_prompt"
    /\ UNCHANGED <<cfg, sfileState, audioFile, wav, stream, stopCalls, closeCalls, frames,
                   recording_active, enter_pressed, cancelled, pending, inputT,
                   displayT, trans, hist, outcome>>
    /\ UNCHANGED <<storeVars, writeVars, dirVars, workVars, utilVars>>

\* the audio deletion prompt, then return filepath, transcript_id
AudioPrompt ==
    /\ Running("audio_prompt")
    /\ IF OfferDeletion(trans = "ok", audioFile = "archived") /\ ~cfg.skip_prompt
       THEN /\ hist' = hist \cup {"delete_prompt"}
            /\ audioFile' \in {"archived", "deleted"}
       ELSE UNCHANGED <<hist, audioFile>>
    /\ pc' = "done"
    /\ outcome' = "returned"
    /\ UNCHANGED <<cfg, sfile, sfileState, wav, stream, stopCalls, closeCalls, frames,
                   recording_active, enter_pressed, cancelled, pending, inputT,
                   displayT, trans>>
    /\ UNCHANGED <<storeVars, writeVars, dirVars, workVars, utilVars>>

\* input thread: input() returns, enter_pressed.set()
InputEnter ==
    /\ inputT = "blocked"
    /\ enter_pressed' = TRUE
    /\ inputT' = "done"
    /\ UNCHANGED <<pc, cfg, sfile, sfileState, audioFile, wav, stream, stopCalls,
                   closeCalls, frames, recording_active, cancelled, pending, displayT,
                   trans, hist, outcome>>
    /\ UNCHANGED <<storeVars, writeVars, dirVars, workVars, utilVars>>

\* input thread: input() raises EOFError: enter_pressed.set(); raise
InputEOF ==
    /\ inputT = "blocked"
    /\ enter_pressed' = TRUE
    /\ inputT' = "raised"
    /\ UNCHANGED <<pc, cfg, sfile, sfileState, audioFile, wav, stream, stopCalls,
                   closeCalls, frames, recording_active, cancelled, pending, displayT,
                   trans, hist, outcome>>
    /\ UNCHANGED <<storeVars, writeVars, dirVars, workVars, utilVars>>

\* display thread: the loop condition is false at a poll, the thread ends
DisplayExit ==
    /\ displayT = "running"
    /\ ~(recording_active /\ ~enter_pressed)
    /\ displayT' = "done"
    /\ UNCHANGED <<pc, cfg, sfile, sfileState, audioFile, wav, stream, stopCalls,
                   closeCalls, frames, recording_active, enter_pressed, cancelled,
                   pending, inputT, trans, hist, outcome>>
    /\ UNCHANGED <<storeVars, writeVars, dirVars, workVars, utilVars>>

\* a display thread whose exception ends the session
DisplayRaises_Propagates ==
    /\ displayT = "running"
    /\ outcome = "running"
    /\ displayT' = "raised"
    /\ outcome' = "raised"
    /\ UNCHANGED <<pc, cfg, sfile, sfileState, audioFile, wav, stream, stopCalls,
                   closeCalls, frames, recording_active, enter_pressed, cancelled,
                   pending, inputT, trans, hist>>
    /\ UNCHANGED <<storeVars, writeVars, dirVars, workVars, utilVars>>

\* display thread: rendering raises, the thread ends with the exception
DisplayRaises ==
    /\ displayT = "running"
    /\ displayT' = "raised"
    /\ UNCHANGED <<pc, cfg, sfile, sfileState, audioFile, wav, stream, stopCalls,
                   closeCalls, frames, recording_active, enter_pressed, cancelled,
                   pending, inputT, trans, hist, outcome>>
    /\ UNCHANGED <<storeVars, writeVars, dirVars, workVars, utilVars>>

\* audio runtime thread: _audio_callback writes one block to wav_file;
\* on a closed wav_file writeframes raises
AudioCallback ==
    /\ stream = "active"
    /\ \/ /\ wav = "open"
          /\ frames < MaxFrames
          /\ frames' = frames + 1
          /\ UNCHANGED hist
       \/ /\ wav = "closed"
          /\ "late_write" \notin hist
          /\ hist' = hist \cup {"late_write"}
          /\ UNCHANGED frames
    /\ UNCHANGED <<pc, cfg, sfile, sfileState, audioFile, wav, stream, stopCalls,
                   closeCalls, recording_active, enter_pressed, cancelled, pending,
                   inputT, displayT, trans, outcome>>
    /\ UNCHANGED <<storeVars, writeVars, dirVars, workVars, utilVars>>

SessNext ==
    \/ CreateTranscript
    \/ TempFile
    \/ WaveOpen
    \/ RecordAudio
    \/ StartInput
    \/ StartDisplay
    \/ WaitExit
    \/ Interrupt
    \/ ConfirmCancel
    \/ ClearActive
    \/ SetEnter
    \/ StreamStop
    \/ StreamClose
    \/ WavClose
    \/ JoinDisplay
    \/ AfterFinally
    \/ AskDelete
    \/ UnlinkTemp
    \/ Archive
    \/ Transcribe
    \/ SetCompleted
    \/ AudioPrompt
    \/ InputEnter
    \/ InputEOF
    \/ DisplayExit
    \/ DisplayRaises
    \/ AudioCallback

InitSession == SessInit /\ StoreInit /\ WriteInit /\ DirIdle /\ WorkIdle /\ UtilIdle

SpecSession == InitSession /\ [][SessNext]_vars

\* ------------------------------------------------------------------ claims: session
\* C2: create_transcript has returned, and the transcript file is on disk
\* with status recording, before the temporary audio sink is opened and
\* before record_audio is called; no audio frame is captured while the
\* session's transcript file does not exist yet.
C2_TranscriptBeforeAudio ==
    /\ (audioFile # "none" \/ wav # "none" \/ stream # "none" \/ frames > 0)
            => sfileState # "absent"
    /\ (outcome = "running" /\ pc \in {"tempfile", "wave_open", "record_audio"})
            => sfileState = "present" /\ FieldOf(sfile, "status") = "recording"

\* frames are being captured, the transcript is on disk with status recording
C2_Witness ==
    /\ stream = "active"
    /\ frames > 0
    /\ sfileState = "present"
    /\ FieldOf(sfile, "status") = "recording"

\* C4: after Ctrl+C and the answer "no", and as long as no stop keystroke has
\* arrived, the session is recording again: recording_active is set,
\* enter_pressed is unset, the stream has been neither stopped nor closed,
\* the sink is open.
C4_DeclineResumesRecording ==
    ("declined" \in hist /\ inputT = "blocked")
        => /\ recording_active
           /\ ~enter_pressed
           /\ stopCalls = 0
           /\ closeCalls = 0
           /\ wav = "open"

\* C5: when the final pass fails (Transcriber construction or transcribe_file
\* raises), the session does not raise, the status is still set to
\* completed, and the archived audio is neither deleted nor offered for
\* deletion.
C5_FailedPassKeepsAudio ==
    trans = "failed"
        => /\ outcome # "raised"
           /\ audioFile = "archived"
           /\ "delete_prompt" \notin hist
           /\ sfileState = "present"
           /\ pc \in {"audio_prompt", "done"} => FieldOf(sfile, "status") = "completed"

\* a session whose final pass failed has returned
C5_Witness ==
    /\ trans = "failed"
    /\ pc = "done"
    /\ outcome = "returned"
    /\ FieldOf(sfile, "status") = "completed"

\* C6: when display_thread.join() is called, stream.stop(), stream.close()
\* and the close of the WAV sink have all occurred, on the stop path and on
\* the cancel path.
C6_TeardownBeforeJoin ==
    "join" \in hist => stopCalls >= 1 /\ closeCalls >= 1 /\ wav = "closed"

\* C7: the capture stream a session opened is closed exactly once, and it
\* and the WAV sink are closed when transcribe_file is invoked on the audio.
C7_StreamClosedOnce ==
    /\ closeCalls <= 1
    /\ "transcribe_file" \in hist => closeCalls = 1 /\ wav = "closed"
    /\ (stream # "none" /\ outcome = "returned") => closeCalls = 1

\* how a session has ended, read off its transcript
Completed == sfileState = "present" /\ FieldOf(sfile, "status") = "completed"
Cancelled == sfileState = "present" /\ FieldOf(sfile, "status") = "cancelled"
Deleted == sfileState = "deleted"

\* C19: once the user has confirmed the cancellation, no Transcriber is
\* constructed and transcribe_file is never called, and when the session has
\* ended it has either set the status to cancelled or deleted the transcript
\* file, one of the two, and has removed the temporary audio file.
C19_CancelSkipsTranscription ==
    "cancel_confirmed" \in hist
        => /\ trans = "none"
           /\ hist \cap {"transcriber", "transcribe_file"} = {}
           /\ outcome # "running"
                => /\ Cancelled # Deleted
                   /\ audioFile = "deleted"

\* C20: a session whose capture stream was opened and that has ended has
\* returned to its caller, and its transcript is in exactly one of the
\* outcomes completed and cancelled (status cancelled, or deleted on the
\* user's choice).
C20_EndsCompletedOrCancelled ==
    (stream # "none" /\ outcome # "running")
        => /\ outcome = "returned"
           /\ Completed # (Cancelled \/ Deleted)

\* the session's signal has left Running: enter_pressed is set, or
\* recording_active, set when the sink was opened, is cleared
SignalLeft == enter_pressed \/ (~recording_active /\ wav # "none")

CaptureFailed == outcome = "raised" /\ wav # "none" /\ stream = "none"

\* C27: when record_audio fails to open the capture stream, the session
\* raises with no input or display thread started, no transcription made and
\* no status change: the transcript file is on disk with the content
\* create_transcript wrote, status recording.
C27_CaptureFailureAborts ==
    CaptureFailed
        => /\ inputT = "notstarted"
           /\ displayT = "notstarted"
           /\ trans = "none"
           /\ hist \cap {"transcriber", "transcribe_file"} = {}
           /\ sfileState = "present"
           /\ sfile = NewTranscript
           /\ FieldOf(sfile, "status") = "recording"

\* record_audio has raised in a session whose transcript was created
C27_Witness == CaptureFailed /\ pc = "done" /\ sfileState = "present"

\* stream.stop() or stream.close() has raised during the teardown
TeardownRaised == hist \cap {"stop_raised", "close_raised"} # {}

\* C28: when stream.stop() or stream.close() has raised during the teardown,
\* the error does not leave the session and the session still finalizes:
\* by the time the display thread is joined close() has been called on the
\* stream and the WAV sink is closed, and the session that returns has a
\* completed or cancelled (or deleted) transcript.
C28_TeardownErrorsSwallowed ==
    TeardownRaised
        => /\ "join" \in hist => closeCalls = 1 /\ wav = "closed"
           /\ outcome = "raised" => pending \/ "cancel_confirmed" \in hist
           /\ outcome = "returned" => Completed \/ Cancelled \/ Deleted

\* the input thread or the display thread ends with an exception in this step
ThreadRaises ==
    \/ inputT # "raised" /\ inputT' = "raised"
    \/ displayT # "raised" /\ displayT' = "raised"

\* C29: an exception in the display thread or in the input thread stays in
\* that thread: the step changes neither where the main thread is nor how
\* the session ends (outcome, cancelled, pending) nor the transcript, the
\* stream or the sink; the input thread sets enter_pressed before it raises,
\* the display thread changes no event.  A session with a failed thread that
\* has ended has raised only from a Ctrl+C at a prompt, and otherwise has
\* returned with a completed or cancelled (or deleted) transcript.
C29_ThreadFailuresConfined ==
    [][/\ ThreadRaises
            => /\ UNCHANGED <<pc, outcome, cancelled, pending, recording_active, sfile,
                              sfileState, stream, wav, trans>>
               /\ displayT' # displayT => UNCHANGED enter_pressed
       /\ (inputT = "raised" \/ displayT = "raised")
            => /\ outcome = "raised" => pending \/ "cancel_confirmed" \in hist
               /\ outcome = "returned" => Completed \/ Cancelled \/ Deleted]_vars

\* both threads have ended with an exception while the session was waiting,
\* and the session has returned with a completed transcript
C29_Witness ==
    /\ inputT = "raised"
    /\ displayT = "raised"
    /\ "join_timeout" \notin hist
    /\ outcome = "returned"
    /\ Completed

\* the statements of the finally block, and a step of one of them
Teardown ==
    {"clear_active", "set_enter", "stream_stop", "stream_close", "wav_close",
     "join_display", "after_finally"}
TeardownStep ==
    \/ ClearActive
    \/ SetEnter
    \/ StreamStop
    \/ StreamClose
    \/ WavClose
    \/ JoinDisplay
    \/ AfterFinally

\* C30: once the stop signal is set the display loop can leave at its poll;
\* the main thread is never held up in its teardown, whatever the display
\* and input threads do: every statement of the finally block can be taken,
\* the join included, and no step of the main thread ends a thread.
C30_TeardownNotBlocked ==
    [][/\ (displayT = "running" /\ SignalLeft) => ENABLED DisplayExit
       /\ (pc \in Teardown /\ outcome = "running") => ENABLED TeardownStep
       /\ (pc' # pc /\ pc \notin {"start_input", "start_display"})
            => UNCHANGED <<inputT, displayT>>]_vars

\* a session has returned while the display thread was still running at the
\* join and the input thread is still blocked in input()
C30_Witness ==
    /\ outcome = "returned"
    /\ "join_timeout" \in hist
    /\ displayT = "running"
    /\ inputT = "blocked"

\* a session that has ended Completed: start_recording_session returned
\* after update_status(filepath, "completed")
EndedCompleted == pc = "done" /\ outcome = "returned" /\ Completed

\* C31: after a session that ends Completed, the language field equals the
\* language the transcription capability reported when the configured
\* language was auto and one was reported, and equals the configured
\* language when that was fixed, also when the transcription pass failed.
C31_LanguageAfterCompleted ==
    EndedCompleted
        => /\ cfg.language = "auto"
                => \A d \in Detected :
                     "last_language_" \o d \in hist => FieldOf(sfile, "language") = d
           /\ cfg.language # "auto" => FieldOf(sfile, "language") = cfg.language

\* C38: the audio callback never writes frames to the WAV sink after the
\* sink has been closed: when wav_file.close() has been executed the capture
\* stream can no longer invoke the callback, in every teardown, also one
\* where stream.stop() raises.
C38_NoWriteAfterClose ==
    /\ wav = "closed" => stream # "active"
    /\ "late_write" \notin hist

\* ------------------------------------------------------------------ writers
\* the session's main thread, as a writer
Main == 0
Writers == {Main} \cup Threads

\* every writer mutating the one path
PathOf_OnePath(w) == "shared"

\* the file a writer mutates: the session the transcript create_transcript
\* returned to it, the locking threads the path they were given
PathOf(w) == IF w = Main THEN "session" ELSE "shared"

\* "Segment i"
Digits == <<"0", "1", "2", "3", "4", "5", "6", "7", "8", "9">>
SegmentText(t) == <<Ch("Segment "), Ch(Digits[t])>>

\* a lock that lets everyone in
MayAcquire_NoWait(l) == TRUE

\* `with lock:` blocks until the lock is free
MayAcquire(l) == l = {}

\* `with lock:` / `with self.file_lock:` is entered
Acquire(t) ==
    /\ tpc[t] = "start"
    /\ MayAcquire(lock)
    /\ lock' = lock \cup {t}
    /\ tpc' = [tpc EXCEPT ![t] = "locked"]
    /\ UNCHANGED <<wfiles, tnew, ostep, obusy, onew>>
    /\ UNCHANGED <<storeVars, sessVars, dirVars, workVars, utilVars>>

\* append_to_transcript: existing = filepath.read_text(); updated = ...
ReadAppend(t) ==
    /\ tpc[t] = "locked"
    /\ tnew' = [tnew EXCEPT ![t] = append_to_transcript(wfiles[PathOf(t)], SegmentText(t))]
    /\ tpc' = [tpc EXCEPT ![t] = "read"]
    /\ UNCHANGED <<wfiles, lock, ostep, obusy, onew>>
    /\ UNCHANGED <<storeVars, sessVars, dirVars, workVars, utilVars>>

\* append_to_transcript: write_file_atomic(filepath, updated)
WriteAppend(t) ==
    /\ tpc[t] = "read"
    /\ wfiles' = [wfiles EXCEPT ![PathOf(t)] = tnew[t]]
    /\ tpc' = [tpc EXCEPT ![t] = "written"]
    /\ UNCHANGED <<lock, tnew, ostep, obusy, onew>>
    /\ UNCHANGED <<storeVars, sessVars, dirVars, workVars, utilVars>>

\* the with-block is left
Release(t) ==
    /\ tpc[t] = "written"
    /\ lock' = lock \ {t}
    /\ tpc' = [tpc EXCEPT ![t] = "done"]
    /\ UNCHANGED <<wfiles, tnew, ostep, obusy, onew>>
    /\ UNCHANGED <<storeVars, sessVars, dirVars, workVars, utilVars>>

\* the mutations the session's main thread makes on its transcript after a
\* stop: append_to_transcript(final_text), update_language, update_status
SessionMutations == <<"append", "language", "status">>
SessionMutation(raw, n) ==
    IF SessionMutations[n] = "append" THEN append_to_transcript(raw, <<Ch("a")>>)
    ELSE IF SessionMutations[n] = "language" THEN update_language(raw, "en")
    ELSE update_status(raw, "completed")

\* the session reads its transcript for its next mutation; no lock is taken
SessionRead ==
    /\ ostep < Len(SessionMutations)
    /\ ~obusy
    /\ onew' = SessionMutation(wfiles[PathOf(Main)], ostep + 1)
    /\ obusy' = TRUE
    /\ UNCHANGED <<wfiles, lock, tpc, tnew, ostep>>
    /\ UNCHANGED <<storeVars, sessVars, dirVars, workVars, utilVars>>

\* the session writes the new content with write_file_atomic
SessionWrite ==
    /\ obusy
    /\ wfiles' = [wfiles EXCEPT ![PathOf(Main)] = onew]
    /\ obusy' = FALSE
    /\ ostep' = ostep + 1
    /\ UNCHANGED <<lock, tpc, tnew, onew>>
    /\ UNCHANGED <<storeVars, sessVars, dirVars, workVars, utilVars>>

WriteNext ==
    \/ \E t \in Threads : Acquire(t)
    \/ \E t \in Threads : ReadAppend(t)
    \/ \E t \in Threads : WriteAppend(t)
    \/ \E t \in Threads : Release(t)
    \/ SessionRead
    \/ SessionWrite

InitWriters == WriteInit /\ StoreInit /\ SessIdle /\ DirIdle /\ WorkIdle /\ UtilIdle

SpecWriters == InitWriters /\ [][WriteNext]_vars

\* ------------------------------------------------------------------ claims: writers
\* a writer has read the file and not yet written it back
Busy(w) == IF w = Main THEN obusy ELSE tpc[w] = "read"

\* the session's transcript after its first n mutations, made one after another
RECURSIVE SessionResult(_)
SessionResult(n) ==
    IF n = 0 THEN NewTranscript ELSE SessionMutation(SessionResult(n - 1), n)

Orders == {o \in [Threads -> Threads] : \A a \in Threads, b \in Threads : o[a] = o[b] => a = b}
SegmentsIn(o) == [i \in Threads |-> SegmentText(o[i])]

\* C9: when N threads have each called append_to_transcript once on the same
\* path under the shared lock, the file is the initial content followed by
\* all N texts, each intact on its own line, whatever the interleaving.
C9_AllSegmentsKept ==
    (\A t \in Threads : tpc[t] = "done")
        => \E o \in Orders : wfiles["shared"] = TestTranscript \o LinesOf(SegmentsIn(o))

\* all threads are done and the last thread's text came first
C9_Witness ==
    /\ \A t \in Threads : tpc[t] = "done"
    /\ SubSeq(wfiles["shared"], Len(TestTranscript) + 1, Len(TestTranscript) + 2)
            = SegmentText(NThreads)

\* ------------------------------------------------------------------ transcript directory
\* the IDs of the entries get_next_id counts: regular files whose name
\* parse_transcript_filename accepts
CountedIds(d) ==
    {IntOf(n.id) : n \in {m \in DOMAIN d : d[m].kind = "file" /\ Matches(m)}}

Max(S) == CHOOSE x \in S : \A y \in S : y <= x

\* a scan without the check that save_dir exists
get_next_id_NoDirCheck(exists, d) == IdStr(Max(CountedIds(d) \cup {0}) + 1)

\* get_next_id(save_dir)
get_next_id(exists, d) ==
    IF ~exists THEN zfill("0", ID_WIDTH)
    ELSE IdStr(Max(CountedIds(d) \cup {0}) + 1)

\* a file name of the legacy shape
PathOfAttempt_Legacy(p) == Name("old", cid[p], cdate[p])

\* filepath of the current attempt: f"{transcript_id}_transcript_{date_str}.md"
PathOfAttempt(p) == Name("new", cid[p], cdate[p])

\* d with entry e at name n (created or replaced)
Put(d, n, e) == [m \in DOMAIN d \cup {n} |-> IF m = n THEN e ELSE d[m]]
\* d without name n
Remove(d, n) == [m \in DOMAIN d \ {n} |-> d[m]]

\* a create_transcript call has begun and neither returned nor raised
UnderWay(p) == cpc[p] \notin {"start", "returned", "raised"}

\* save_dir.mkdir(parents=True, exist_ok=True); attempts = 0
Mkdir(p) ==
    /\ cpc[p] = "start"
    /\ dexists' = TRUE
    /\ cpc' = [cpc EXCEPT ![p] = "loop"]
    /\ overlap' = (overlap \/ \E q \in Callers \ {p} : UnderWay(q))
    /\ UNCHANGED <<dir, cid, cdate, attempts, issued, clobbered, ndel, probe>>
    /\ UNCHANGED <<storeVars, sessVars, writeVars, workVars, utilVars>>

\* while attempts < max_attempts: transcript_id = get_next_id(save_dir);
\* date_str = datetime.now().strftime("%Y%m%d")
Scan(p) ==
    /\ cpc[p] = "loop"
    /\ attempts[p] < max_attempts
    /\ cid' = [cid EXCEPT ![p] = get_next_id(dexists, dir)]
    /\ \E date_str \in Dates : cdate' = [cdate EXCEPT ![p] = date_str]
    /\ cpc' = [cpc EXCEPT ![p] = "check"]
    /\ UNCHANGED <<dexists, dir, attempts, issued, clobbered, ndel, overlap, probe>>
    /\ UNCHANGED <<storeVars, sessVars, writeVars, workVars, utilVars>>

\* if not filepath.exists(): ... else: attempts += 1
Check(p) ==
    /\ cpc[p] = "check"
    /\ IF PathOfAttempt(p) \notin DOMAIN dir
       THEN /\ cpc' = [cpc EXCEPT ![p] = "write"]
            /\ UNCHANGED attempts
       ELSE /\ cpc' = [cpc EXCEPT ![p] = "touch"]
            /\ attempts' = [attempts EXCEPT ![p] = attempts[p] + 1]
    /\ UNCHANGED <<dexists, dir, cid, cdate, issued, clobbered, ndel, overlap, probe>>
    /\ UNCHANGED <<storeVars, sessVars, writeVars, workVars, utilVars>>

\* write_file_atomic(filepath, frontmatter): os.replace puts the new file at
\* the path, over whatever file is there; return filepath, transcript_id
WriteNew(p) ==
    /\ cpc[p] = "write"
    /\ dir' = Put(dir, PathOfAttempt(p), File(generate_frontmatter(cid[p], "recording", "auto")))
    /\ clobbered' = clobbered \cup ({PathOfAttempt(p)} \cap DOMAIN dir)
    /\ issued' = Append(issued, cid[p])
    /\ cpc' = [cpc EXCEPT ![p] = "returned"]
    /\ UNCHANGED <<dexists, cid, cdate, attempts, ndel, overlap, probe>>
    /\ UNCHANGED <<storeVars, sessVars, writeVars, workVars, utilVars>>

\* filepath.touch(exist_ok=True): an existing entry keeps its content, a
\* missing one is created empty; then the loop goes round
Touch(p) ==
    /\ cpc[p] = "touch"
    /\ dir' = IF PathOfAttempt(p) \in DOMAIN dir THEN dir
              ELSE Put(dir, PathOfAttempt(p), File(<<>>))
    /\ cpc' = [cpc EXCEPT ![p] = "loop"]
    /\ UNCHANGED <<dexists, cid, cdate, attempts, issued, clobbered, ndel, overlap, probe>>
    /\ UNCHANGED <<storeVars, sessVars, writeVars, workVars, utilVars>>

\* the loop ends with attempts = max_attempts: raise TranscriptError
CreateRaises(p) ==
    /\ cpc[p] = "loop"
    /\ attempts[p] >= max_attempts
    /\ cpc' = [cpc EXCEPT ![p] = "raised"]
    /\ UNCHANGED <<dexists, dir, cid, cdate, attempts, issued, clobbered, ndel, overlap, probe>>
    /\ UNCHANGED <<storeVars, sessVars, writeVars, workVars, utilVars>>

\* filepath.unlink(): the user deletes a transcript file, as the cancel path
\* of a session offers
DeleteTranscript ==
    /\ ndel < MaxDeletes
    /\ \E n \in DOMAIN dir :
        /\ dir[n].kind = "file"
        /\ n.shape = "new"
        /\ dir' = Remove(dir, n)
    /\ ndel' = ndel + 1
    /\ UNCHANGED <<dexists, cpc, cid, cdate, attempts, issued, clobbered, overlap, probe>>
    /\ UNCHANGED <<storeVars, sessVars, writeVars, workVars, utilVars>>

\* a direct call of get_next_id(save_dir)
NextIdCall ==
    /\ ~probe.called
    /\ probe' = [called |-> TRUE, exists |-> dexists, dir |-> dir,
                 out |-> get_next_id(dexists, dir)]
    /\ UNCHANGED <<dexists, dir, cpc, cid, cdate, attempts, issued, clobbered, ndel, overlap>>
    /\ UNCHANGED <<storeVars, sessVars, writeVars, workVars, utilVars>>

DirNext ==
    \/ \E p \in Callers : Mkdir(p)
    \/ \E p \in Callers : Scan(p)
    \/ \E p \in Callers : Check(p)
    \/ \E p \in Callers : WriteNew(p)
    \/ \E p \in Callers : Touch(p)
    \/ \E p \in Callers : CreateRaises(p)
    \/ DeleteTranscript
    \/ NextIdCall

InitDir == DirInit /\ StoreInit /\ SessIdle /\ WriteInit /\ WorkIdle /\ UtilIdle

SpecDir == InitDir /\ [][DirNext]_vars

\* ------------------------------------------------------------------ claims: directory
\* the transcript files a direct get_next_id call found: regular files of the
\* legacy or the current shape with an ID of ID_WIDTH digits
ProbedFiles ==
    {n \in DOMAIN probe.dir :
        /\ probe.dir[n].kind = "file"
        /\ n.shape \in {"old", "new"}
        /\ Len(n.id) = ID_WIDTH}
ProbedIds == {IntOf(n.id) : n \in ProbedFiles}

\* C12: in a directory holding transcript files of the legacy and the current
\* shape, other files and subdirectories, get_next_id returns the largest ID
\* of the transcript files of both shapes plus one, whatever else is there,
\* and so not the ID of any of these transcript files.
C12_NextIdIsMaxPlusOne ==
    (probe.called /\ probe.exists /\ ProbedFiles # {})
        => /\ probe.out = IdStr(Max(ProbedIds) + 1)
           /\ \A n \in ProbedFiles : n.id # probe.out

\* get_next_id was called on a directory with transcript files of both
\* shapes (IDs 1 and 2), a file that is no transcript and a subdirectory
\* named like a transcript with ID 4, and returned ID 3
C12_Witness ==
    /\ probe.called
    /\ {OldFile, NotesFile, SubDirName} \subseteq DOMAIN probe.dir
    /\ \E n \in ProbedFiles : n.shape = "new"
    /\ probe.out = IdStr(3)

\* C13: over create_transcript calls made one after another and deletions
\* of transcript files, an ID that was returned once is not returned again.
C13_IdsNeverReused ==
    ~overlap
        => \A i \in 1..Len(issued), j \in 1..Len(issued) : i # j => issued[i] # issued[j]

\* C14: two concurrent create_transcript calls on one directory, no file
\* being deleted, never return the same ID or the same path, and neither
\* replaces the file the other wrote.
C14_ConcurrentCreatesDiffer ==
    ndel = 0
        => /\ clobbered = {}
           /\ \A p \in Callers, q \in Callers :
                (p # q /\ cpc[p] = "returned" /\ cpc[q] = "returned")
                    => cid[p] # cid[q] /\ PathOfAttempt(p) # PathOfAttempt(q)

\* C15: create_transcript makes at most max_attempts attempts, and after an
\* attempt that found the filename taken the next attempt is made with a
\* strictly larger ID.
C15_RetryWithLargerId ==
    [][\A p \in Callers :
        /\ attempts'[p] <= max_attempts
        /\ (cpc[p] = "loop" /\ cpc'[p] = "check" /\ attempts[p] > 0)
                => IntOf(cid'[p]) > IntOf(cid[p])]_vars

\* C16 (as amended): get_next_id returns "000000" when the directory does
\* not exist, and "000001" when it exists and holds no transcript file.
C16_FirstId ==
    (probe.called /\ ProbedFiles = {})
        => probe.out = IF probe.exists THEN "000001" ELSE "000000"

\* get_next_id was called on an existing directory that holds entries but no
\* transcript file
C16_Witness ==
    /\ probe.called
    /\ probe.exists
    /\ ProbedFiles = {}
    /\ DOMAIN probe.dir # {}
    /\ probe.out = "000001"

\* C16 (as claimed): get_next_id returns "000000" when the directory does not
\* exist and also when it exists and holds no transcript file.
C16_ZeroIdWhenNoTranscripts ==
    (probe.called /\ ProbedFiles = {}) => probe.out = "000000"

\* a well-formed new transcript with the given ID: metadata block with
\* status recording and language auto, blank line, empty body
WellFormedNew(content, id_str) ==
    /\ FrontmatterOk(content)
    /\ FieldOf(content, "id") = id_str
    /\ FieldOf(content, "status") = "recording"
    /\ FieldOf(content, "language") = "auto"
    /\ EndsWith(content, Delim \o <<NL, NL>>)
    /\ LStripNL(RawBody(content)) = <<>>

C36_IdsHaveIdWidthDigits ==
    /\ probe.called => Len(probe.out) = ID_WIDTH
    /\ \A i \in 1..Len(issued) : Len(issued[i]) = ID_WIDTH
    /\ \A p \in Callers :
         /\ (cpc[p] = "returned" /\ PathOfAttempt(p) \in DOMAIN dir)
                => Matches(PathOfAttempt(p))
         /\ cpc[p] # "raised"

\* ------------------------------------------------------------------ realtime worker
\* sum(len(c) for c in self.accumulated_audio)
RECURSIVE TotalSamples(_)
TotalSamples(buf) == IF buf = <<>> THEN 0 ELSE Head(buf).len + TotalSamples(Tail(buf))

\* a loop that transcribes after every chunk
ReachedMin_Always(total_samples) == TRUE

\* if total_samples >= self.min_chunk_samples
ReachedMin(total_samples) == total_samples >= min_chunk_samples

\* the ids of the chunks in a buffer
IdsOf(buf) == {buf[i].id : i \in 1..Len(buf)}

\* what the transcriber may raise: TranscriptionError or another Exception
Exceptions == {"TranscriptionError", "Exception"}
\* a handler for TranscriptionError only
ProcessCatches_TranscriptionOnly(exc) == exc = "TranscriptionError"
\* except TranscriptionError / except Exception in _process_accumulated_audio
ProcessCatches(exc) == exc \in {"TranscriptionError", "Exception"}
\* except Exception in _worker_loop
LoopCatches(exc) == exc \in {"TranscriptionError", "Exception"}

\* the stripped text of a segment
SegmentTexts == {<<>>, <<Ch("a")>>}

\* a join that waits for the thread without a timeout
JoinMayReturn_NoTimeout(alive) == ~alive
\* self.worker_thread.join(timeout=timeout) returns when the thread has ended
\* or the timeout has passed
JoinMayReturn(alive) == TRUE

\* self.worker_thread.is_alive()
Alive == wkpc \notin {"notstarted", "done", "raised"}

\* _process_accumulated_audio is entered from c: np.concatenate of the buffer
\* is written to a WAV file and handed to transcriber.transcribe_file
Hand(c, buf) ==
    /\ window' = buf
    /\ passed' = passed \cup IdsOf(buf)
    /\ ctx' = c
    /\ nseg' = 0
    /\ wkpc' = "transcribe"

\* where control goes when _process_accumulated_audio returns
AfterProcess == IF ctx = "loop" THEN "test" ELSE "done"

\* start(): is_running.set(); the worker thread starts
Start ==
    /\ wkpc = "notstarted"
    /\ spc = "idle"
    /\ is_running' = TRUE
    /\ wkpc' = "test"
    /\ UNCHANGED <<audio_queue, accumulated_audio, ctx, window, nseg, segtext, apc, chunk,
                   nchunks, spc, timedOut, accepted, passed, yielded, wappended, nfail>>
    /\ UNCHANGED <<storeVars, sessVars, writeVars, dirVars, utilVars>>

\* add_audio_chunk: if self.is_running.is_set()
AddCheck ==
    /\ apc = "idle"
    /\ nchunks < MaxChunks
    /\ nchunks' = nchunks + 1
    /\ \E n \in ChunkSizes :
        IF is_running
        THEN /\ chunk' = [id |-> nchunks + 1, len |-> n]
             /\ accepted' = accepted \cup {nchunks + 1}
             /\ apc' = "put"
        ELSE UNCHANGED <<chunk, accepted, apc>>
    /\ UNCHANGED <<is_running, audio_queue, accumulated_audio, wkpc, ctx, window, nseg,
                   segtext, spc, timedOut, passed, yielded, wappended, nfail>>
    /\ UNCHANGED <<storeVars, sessVars, writeVars, dirVars, utilVars>>

\* add_audio_chunk: self.audio_queue.put(audio_chunk.copy())
AddPut ==
    /\ apc = "put"
    /\ audio_queue' = Append(audio_queue, chunk)
    /\ apc' = "idle"
    /\ UNCHANGED <<is_running, accumulated_audio, wkpc, ctx, window, nseg, segtext, chunk,
                   nchunks, spc, timedOut, accepted, passed, yielded, wappended, nfail>>
    /\ UNCHANGED <<storeVars, sessVars, writeVars, dirVars, utilVars>>

\* stop() before start(): if self.worker_thread is None: return
StopNoThread ==
    /\ spc = "idle"
    /\ wkpc = "notstarted"
    /\ spc' = "returned"
    /\ UNCHANGED <<is_running, audio_queue, accumulated_audio, wkpc, ctx, window, nseg,
                   segtext, apc, chunk, nchunks, timedOut, accepted, passed, yielded,
                   wappended, nfail>>
    /\ UNCHANGED <<storeVars, sessVars, writeVars, dirVars, utilVars>>

\* stop(): self.is_running.clear(); if self.worker_thread.is_alive()
StopClear ==
    /\ spc = "idle"
    /\ wkpc # "notstarted"
    /\ is_running' = FALSE
    /\ spc' = IF Alive THEN "join" ELSE "returned"
    /\ UNCHANGED <<audio_queue, accumulated_audio, wkpc, ctx, window, nseg, segtext, apc,
                   chunk, nchunks, timedOut, accepted, passed, yielded, wappended, nfail>>
    /\ UNCHANGED <<storeVars, sessVars, writeVars, dirVars, utilVars>>

\* stop(): join(timeout=timeout) returns; the thread is alive or not; a
\* warning or an info line is logged; stop returns
StopJoinReturns ==
    /\ spc = "join"
    /\ JoinMayReturn(Alive)
    /\ timedOut' = Alive
    /\ spc' = "returned"
    /\ UNCHANGED <<is_running, audio_queue, accumulated_audio, wkpc, ctx, window, nseg,
                   segtext, apc, chunk, nchunks, accepted, passed, yielded, wappended,
                   nfail>>
    /\ UNCHANGED <<storeVars, sessVars, writeVars, dirVars, utilVars>>

\* while self.is_running.is_set() or not self.audio_queue.empty(); after the
\* loop: if self.accumulated_audio: self._process_accumulated_audio()
LoopTest ==
    /\ wkpc = "test"
    /\ IF is_running \/ audio_queue # <<>>
       THEN /\ wkpc' = "get"
            /\ UNCHANGED <<window, passed, ctx, nseg>>
       ELSE IF accumulated_audio # <<>>
            THEN Hand("flush", accumulated_audio)
            ELSE /\ wkpc' = "done"
                 /\ UNCHANGED <<window, passed, ctx, nseg>>
    /\ UNCHANGED <<is_running, audio_queue, accumulated_audio, segtext, apc, chunk,
                   nchunks, spc, timedOut, accepted, yielded, wappended, nfail>>
    /\ UNCHANGED <<storeVars, sessVars, writeVars, dirVars, utilVars>>

\* chunk = self.audio_queue.get(timeout=0.1), Empty: continue; otherwise the
\* chunk is accumulated and the buffer processed once it has reached the minimum
Get ==
    /\ wkpc = "get"
    /\ IF audio_queue = <<>>
       THEN /\ wkpc' = "test"
            /\ UNCHANGED <<audio_queue, accumulated_audio, window, passed, ctx, nseg>>
       ELSE /\ audio_queue' = Tail(audio_queue)
            /\ accumulated_audio' = Append(accumulated_audio, Head(audio_queue))
            /\ IF ReachedMin(TotalSamples(accumulated_audio'))
               THEN Hand("loop", accumulated_audio')
               ELSE /\ wkpc' = "test"
                    /\ UNCHANGED <<window, passed, ctx, nseg>>
    /\ UNCHANGED <<is_running, segtext, apc, chunk, nchunks, spc, timedOut, accepted,
                   yielded, wappended, nfail>>
    /\ UNCHANGED <<storeVars, sessVars, writeVars, dirVars, utilVars>>

\* for segment in self.transcriber.transcribe_file(...): the next segment;
\* text = str(segment.get("text", "") or "").strip(); if text
TranscribeYields ==
    /\ wkpc = "transcribe"
    /\ nseg < MaxSegs
    /\ nseg' = nseg + 1
    /\ \E t \in SegmentTexts :
        IF NonEmpty(t)
        THEN /\ segtext' = t
             /\ yielded' = Append(yielded, t)
             /\ wkpc' = "append"
        ELSE UNCHANGED <<segtext, yielded, wkpc>>
    /\ UNCHANGED <<is_running, audio_queue, accumulated_audio, ctx, window, apc, chunk,
                   nchunks, spc, timedOut, accepted, passed, wappended, nfail>>
    /\ UNCHANGED <<storeVars, sessVars, writeVars, dirVars, utilVars>>

\* the chunks of a window, tagged with the transcription call that holds it:
\* the thread that made the call and the failures before it (two calls of
\* one thread share chunks only across a failure, which keeps the buffer)
CallOf(buf, thread) == {<<i, thread, nfail>> : i \in IdsOf(buf)}

\* with self.file_lock: append_to_transcript(self.transcript_path, text)
AppendSegment ==
    /\ wkpc = "append"
    /\ wappended' = Append(wappended, segtext)
    /\ appendedBy' = appendedBy \cup CallOf(window, "worker")
    /\ wkpc' = "transcribe"
    /\ UNCHANGED <<is_running, audio_queue, accumulated_audio, ctx, window, nseg, segtext,
                   apc, chunk, nchunks, spc, timedOut, accepted, passed, yielded, nfail>>
    /\ UNCHANGED <<nstart, fpc, fwindow, fseg>>
    /\ UNCHANGED <<storeVars, sessVars, writeVars, dirVars, migVars, archVars>>

\* the segments are exhausted: self.accumulated_audio.clear()
TranscribeEnds ==
    /\ wkpc = "transcribe"
    /\ accumulated_audio' = <<>>
    /\ wkpc' = AfterProcess
    /\ UNCHANGED <<is_running, audio_queue, ctx, window, nseg, segtext, apc, chunk,
                   nchunks, spc, timedOut, accepted, passed, yielded, wappended, nfail>>
    /\ UNCHANGED <<storeVars, sessVars, writeVars, dirVars, utilVars>>

\* transcribe_file raises, before or between segments: the handlers of
\* _process_accumulated_audio and of the loop; the buffer is not cleared
TranscribeRaises ==
    /\ wkpc = "transcribe"
    /\ nfail < MaxFails
    /\ nfail' = nfail + 1
    /\ \E exc \in Exceptions :
        wkpc' = IF ProcessCatches(exc) THEN AfterProcess
                ELSE IF ctx = "loop" /\ LoopCatches(exc) THEN "test"
                ELSE "raised"
    /\ UNCHANGED <<is_running, audio_queue, accumulated_audio, ctx, window, nseg, segtext,
                   apc, chunk, nchunks, spc, timedOut, accepted, passed, yielded,
                   wappended>>
    /\ UNCHANGED <<storeVars, sessVars, writeVars, dirVars, utilVars>>

WorkNext ==
    \/ Start
    \/ AddCheck
    \/ AddPut
    \/ StopNoThread
    \/ StopClear
    \/ StopJoinReturns
    \/ LoopTest
    \/ Get
    \/ TranscribeYields
    \/ AppendSegment
    \/ TranscribeEnds
    \/ TranscribeRaises

InitWorker == WorkInit /\ StoreInit /\ SessIdle /\ WriteInit /\ DirIdle /\ UtilIdle

SpecWorker == InitWorker /\ [][WorkNext]_vars

\* ------------------------------------------------------------------ claims: realtime worker
\* C22: a chunk is placed on the worker's queue only while is_running is set,
\* in every interleaving of add_audio_chunk with stop(), and once stop() has
\* returned the queue never grows.
C22_NoEnqueueAfterStop ==
    [][/\ Len(audio_queue') > Len(audio_queue) => is_running
       /\ spc = "returned" => Len(audio_queue') <= Len(audio_queue)]_vars

\* the transcriber is called in this step
Handed == wkpc \notin {"transcribe", "append"} /\ wkpc' = "transcribe"

C24_FailureKeepsLoop ==
    [][/\ wkpc' # "raised"
       /\ nfail' # nfail => wkpc' = (IF ctx = "loop" THEN "test" ELSE "done")]_vars

\* after a failure in the loop the worker has taken all chunks, transcribed
\* them in a later window, appended a segment, and ended after stop()
C24_Witness ==
    /\ nfail > 0
    /\ wkpc = "done"
    /\ spc = "returned"
    /\ accepted = 1..MaxChunks
    /\ passed = accepted
    /\ accumulated_audio = <<>>
    /\ wappended # <<>>

\* C25: when stop() has returned without timing out and the transcriber has
\* not failed, the worker has ended, the queue and the accumulation buffer
\* are empty, and every chunk add_audio_chunk accepted has been handed to the
\* transcriber.
C25_StopDrainsEverything ==
    (spc = "returned" /\ wkpc # "notstarted" /\ ~timedOut /\ nfail = 0)
        => /\ wkpc = "done"
           /\ audio_queue = <<>>
           /\ accumulated_audio = <<>>
           /\ accepted \subseteq passed

\* C26: stop() can always leave its join, whatever the worker thread does,
\* and when it returns the worker thread is where it was: a thread blocked in
\* the transcriber stays blocked there, alive.
C26_StopAlwaysReturns ==
    [][/\ spc = "join" => ENABLED StopJoinReturns
       /\ (spc = "join" /\ spc' = "returned") => wkpc' = wkpc /\ timedOut' = Alive]_vars

\* stop() has returned while the worker is still inside transcribe_file
C26_Witness ==
    /\ spc = "returned"
    /\ timedOut
    /\ wkpc = "transcribe"

\* the transcription calls that appended a segment while chunk i was in
\* their window
AppendingCalls(i) == {c \in appendedBy : c[1] = i}

\* C37: the worker never writes the transcription of the same audio twice:
\* each chunk accepted by add_audio_chunk belongs to at most one
\* transcription call whose segments are appended, also when a call fails
\* before or part-way through yielding its segments.
C37_NoAudioWrittenTwice ==
    \A i \in accepted : Cardinality(AppendingCalls(i)) <= 1

\* ------------------------------------------------------------------ realtime worker: restart, finalize
\* start() called again: if self.worker_thread is not None and
\* self.worker_thread.is_alive(), a warning and return; otherwise
\* is_running.set() and a new worker thread is started
StartAgain ==
    /\ wkpc # "notstarted"
    /\ nstart < MaxStarts
    /\ nstart' = nstart + 1
    /\ IF Alive
       THEN UNCHANGED <<is_running, wkpc>>
       ELSE /\ is_running' = TRUE
            /\ wkpc' = "test"
    /\ UNCHANGED <<audio_queue, accumulated_audio, ctx, window, nseg, segtext, apc, chunk,
                   nchunks, spc, timedOut, accepted, passed, yielded, wappended, nfail>>
    /\ UNCHANGED <<fpc, fwindow, fseg, appendedBy>>
    /\ UNCHANGED <<storeVars, sessVars, writeVars, dirVars, migVars, archVars>>

\* finalize(), called after stop() has returned, remaining_audio_path None:
\* if self.accumulated_audio: self._process_accumulated_audio(), which
\* concatenates the buffer and hands it to transcriber.transcribe_file
FinalizeCheck ==
    /\ spc = "returned"
    /\ fpc = "idle"
    /\ fseg' = 0
    /\ IF accumulated_audio # <<>>
       THEN /\ fwindow' = accumulated_audio
            /\ passed' = passed \cup IdsOf(accumulated_audio)
            /\ fpc' = "transcribe"
       ELSE /\ fpc' = "done"
            /\ UNCHANGED <<fwindow, passed>>
    /\ UNCHANGED <<is_running, audio_queue, accumulated_audio, wkpc, ctx, window, nseg,
                   segtext, apc, chunk, nchunks, spc, timedOut, accepted, yielded,
                   wappended, nfail>>
    /\ UNCHANGED <<nstart, appendedBy>>
    /\ UNCHANGED <<storeVars, sessVars, writeVars, dirVars, migVars, archVars>>

\* _process_accumulated_audio on the caller's thread: the next segment; a
\* non-empty text is appended under file_lock
FinalizeSegment ==
    /\ fpc = "transcribe"
    /\ fseg < MaxSegs
    /\ fseg' = fseg + 1
    /\ \E t \in SegmentTexts :
        IF NonEmpty(t)
        THEN /\ yielded' = Append(yielded, t)
             /\ wappended' = Append(wappended, t)
             /\ appendedBy' = appendedBy \cup CallOf(fwindow, "finalize")
        ELSE UNCHANGED <<yielded, wappended, appendedBy>>
    /\ UNCHANGED <<is_running, audio_queue, accumulated_audio, wkpc, ctx, window, nseg,
                   segtext, apc, chunk, nchunks, spc, timedOut, accepted, passed, nfail>>
    /\ UNCHANGED <<nstart, fpc, fwindow>>
    /\ UNCHANGED <<storeVars, sessVars, writeVars, dirVars, migVars, archVars>>

\* the segments are exhausted: self.accumulated_audio.clear(); finalize returns
FinalizeEnds ==
    /\ fpc = "transcribe"
    /\ accumulated_audio' = <<>>
    /\ fpc' = "done"
    /\ UNCHANGED <<is_running, audio_queue, wkpc, ctx, window, nseg, segtext, apc, chunk,
                   nchunks, spc, timedOut, accepted, passed, yielded, wappended, nfail>>
    /\ UNCHANGED <<nstart, fwindow, fseg, appendedBy>>
    /\ UNCHANGED <<storeVars, sessVars, writeVars, dirVars, migVars, archVars>>

\* transcribe_file raises in finalize's call: caught in
\* _process_accumulated_audio, the buffer is not cleared; finalize returns
FinalizeRaises ==
    /\ fpc = "transcribe"
    /\ fpc' = "done"
    /\ UNCHANGED workVars
    /\ UNCHANGED <<nstart, fwindow, fseg, appendedBy>>
    /\ UNCHANGED <<storeVars, sessVars, writeVars, dirVars, migVars, archVars>>

LifeNext ==
    \/ Start
    \/ AddCheck
    \/ AddPut
    \/ StopNoThread
    \/ StopClear
    \/ StopJoinReturns
    \/ LoopTest
    \/ Get
    \/ TranscribeYields
    \/ AppendSegment
    \/ TranscribeEnds
    \/ TranscribeRaises
    \/ StartAgain
    \/ FinalizeCheck
    \/ FinalizeSegment
    \/ FinalizeEnds
    \/ FinalizeRaises

SpecLifecycle == InitWorker /\ [][LifeNext]_vars

\* ------------------------------------------------------------------ claims: worker lifecycle
\* the worker's state: 0 Idle (no thread yet), 1 Running (thread alive,
\* is_running set), 2 Draining (thread alive, is_running clear), 3 Stopped
Lifecycle ==
    IF wkpc = "notstarted" THEN 0
    ELSE IF Alive /\ is_running THEN 1
    ELSE IF Alive THEN 2
    ELSE 3

\* C35: the worker's lifecycle only moves forward through Idle, Running,
\* Draining, Stopped: start() while the consumer thread is alive creates no
\* second thread and changes nothing, and a worker that has been stopped
\* never returns to Running.
C35_LifecycleForwardOnly ==
    [][/\ Lifecycle' >= Lifecycle
       /\ (nstart' # nstart /\ Alive) => UNCHANGED <<is_running, wkpc>>]_vars

\* C39: finalize() never runs _process_accumulated_audio while the worker
\* loop is alive, also after a stop() that returned on timeout, and no chunk
\* is in a window appended by the worker thread and in one appended by
\* finalize().
C39_FinalizeNotConcurrent ==
    /\ fpc = "transcribe" => ~Alive
    /\ \A i \in accepted :
         ~(\E c, f \in AppendingCalls(i) : c[2] = "worker" /\ f[2] = "finalize")

\* ------------------------------------------------------------------ migration
\* find_old_format_files(save_dir): the entries that are files and whose
\* name TRANSCRIPT_FILENAME_PATTERN_OLD matches
find_old_format_files(d) ==
    {n \in DOMAIN d : d[n].kind = "file" /\ n.shape = "old" /\ Matches(n)}

\* the orders save_dir.iterdir() may list a set of entries in
Listings(S) ==
    {q \in [1..Cardinality(S) -> S] : {q[i] : i \in 1..Cardinality(S)} = S}

\* parse_transcript_filename(old_path.name), then
\* f"{id_str}_transcript_{date_str}.md"
NewNameOf(old_name) == Name("new", old_name.id, old_name.date)

\* a migration that does not look at the target
TargetTaken_Never(d, new_path) == FALSE

\* new_path.exists()
TargetTaken(d, new_path) == new_path \in DOMAIN d

\* a migration that renames in a dry run as well
Performs_Always(dry_run) == TRUE

\* `if not dry_run:`: the rename is performed
Performs(dry_run) == ~dry_run

\* old_path.rename(new_path): the entry moves, replacing a file at new_path
rename_transcript_file(d, old_path, new_path) ==
    [n \in (DOMAIN d \ {old_path}) \cup {new_path} |->
        IF n = new_path THEN d[old_path] ELSE d[n]]

\* validate_migration(old_path, new_path)
validate_migration(d, old_path, new_path) ==
    new_path \in DOMAIN d /\ old_path \notin DOMAIN d

\* the loop of migrate_filenames over old_files, from directory d and the
\* counts r; the directory and the counts after it
RECURSIVE MigrateLoop(_, _, _, _)
MigrateLoop(d, old_files, dry_run, r) ==
    IF old_files = <<>> THEN [dir |-> d, result |-> r]
    ELSE LET old_path == Head(old_files)
             new_path == NewNameOf(old_path)
             rest == Tail(old_files)
             counted == [r EXCEPT !.renamed = @ + 1,
                                  !.operations = Append(@, <<old_path, new_path>>)]
         IN  IF TargetTaken(d, new_path)
             THEN MigrateLoop(d, rest, dry_run,
                              [r EXCEPT !.failed = @ + 1, !.errors = Append(@, new_path)])
             ELSE IF Performs(dry_run)
             THEN LET d2 == rename_transcript_file(d, old_path, new_path)
                  IN  IF validate_migration(d2, old_path, new_path)
                      THEN MigrateLoop(d2, rest, dry_run, counted)
                      ELSE MigrateLoop(d2, rest, dry_run,
                                       [r EXCEPT !.failed = @ + 1,
                                                 !.errors = Append(@, old_path)])
             ELSE MigrateLoop(d, rest, dry_run, counted)

\* migrate_filenames(save_dir, dry_run), with old_files as find_old_format_files
\* listed them
migrate_filenames(d, old_files, dry_run) ==
    MigrateLoop(d, old_files, dry_run,
                [NoResult EXCEPT !.called = TRUE, !.dry_run = dry_run])

\* one call of migrate_filenames
Migrate ==
    /\ \E dry_run \in BOOLEAN, old_files \in Listings(find_old_format_files(dir)) :
         LET out == migrate_filenames(dir, old_files, dry_run)
         IN  /\ dir' = out.dir
             /\ result' = out.result
             /\ before' = [dir |-> dir, old_files |-> old_files]
    /\ UNCHANGED <<dexists, cpc, cid, cdate, attempts, issued, clobbered, ndel, overlap,
                   probe>>
    /\ UNCHANGED <<storeVars, sessVars, writeVars, workVars, archVars, lifeVars>>

MigNext == Migrate

\* a directory holding any of the entries, no create_transcript call under way
InitMigrate ==
    /\ \E names \in SUBSET MigNames :
         /\ dexists = TRUE
         /\ dir = [n \in names |-> MigEntry(n)]
    /\ cpc = [p \in Callers |-> "start"]
    /\ cid = [p \in Callers |-> ""]
    /\ cdate = [p \in Callers |-> ""]
    /\ attempts = [p \in Callers |-> 0]
    /\ issued = <<>>
    /\ clobbered = {}
    /\ ndel = 0
    /\ overlap = FALSE
    /\ probe = NoProbe
    /\ MigIdle
    /\ ArchIdle
    /\ LifeInit
    /\ StoreInit /\ SessIdle /\ WriteInit /\ WorkIdle

SpecMigrate == InitMigrate /\ [][MigNext]_vars

\* ------------------------------------------------------------------ claims: migration
\* what the last call found: the legacy-shape files, and those of them whose
\* current-shape name was taken
Found == find_old_format_files(before.dir)
Collides(n) ==
    \E m \in DOMAIN before.dir : m.shape = "new" /\ m.id = n.id /\ m.date = n.date

\* C32: migrate_filenames(dry_run=False) renames every legacy-shape file to
\* the current shape with the same ID, the same date and unchanged content;
\* a legacy file whose target name exists is left in place and counted as
\* failed; no other entry is overwritten, modified, created or removed; and
\* renamed + failed is the number of legacy-shape files found.
C32_MigrationRenamesSafely ==
    (result.called /\ ~result.dry_run)
        => /\ \A n \in Found :
                IF Collides(n)
                THEN n \in DOMAIN dir /\ dir[n] = before.dir[n]
                ELSE /\ n \notin DOMAIN dir
                     /\ \E m \in DOMAIN dir :
                          /\ m.shape = "new" /\ m.id = n.id /\ m.date = n.date
                          /\ dir[m] = before.dir[n]
           /\ \A n \in DOMAIN before.dir \ Found : n \in DOMAIN dir /\ dir[n] = before.dir[n]
           /\ Cardinality(DOMAIN dir) = Cardinality(DOMAIN before.dir)
           /\ result.renamed + result.failed = Cardinality(Found)
           /\ result.failed = Cardinality({n \in Found : Collides(n)})
           /\ Len(result.operations) = result.renamed

\* a real run has renamed one legacy file and left another, whose target
\* existed, in place
C32_Witness ==
    /\ result.called /\ ~result.dry_run
    /\ result.renamed = 1
    /\ result.failed = 1
    /\ OldFile \in DOMAIN dir /\ NewFile1 \in DOMAIN dir
    /\ dir[NewFile1] = MigEntry(NewFile1)
    /\ OldFile2 \notin DOMAIN dir /\ dir[NewFile] = MigEntry(OldFile2)

\* C33: migrate_filenames(dry_run=True) leaves the directory unchanged and
\* reports the operations and the renamed and failed counts that a real run
\* on the same directory reports.
C33_DryRunPredictsRealRun ==
    (result.called /\ result.dry_run)
        => /\ dir = before.dir
           /\ LET real == migrate_filenames(before.dir, before.old_files, FALSE).result
              IN  /\ result.operations = real.operations
                  /\ result.renamed = real.renamed
                  /\ result.failed = real.failed
                  /\ result.errors = real.errors

\* a dry run over a directory with a legacy file to rename and one whose
\* target exists
C33_Witness ==
    /\ result.called /\ result.dry_run
    /\ result.renamed = 1
    /\ result.failed = 1
    /\ {OldFile, OldFile2, NewFile1} \subseteq DOMAIN dir
    /\ result.operations = <<<<OldFile2, NewFile>>>>

\* ------------------------------------------------------------------ audio archive
\* transcript_path.stem + ".wav"
AudioName(stem) == stem \o ".wav"
\* f"{transcript_path.stem}_{timestamp}.wav"
AudioNameWithTimestamp(stem, t) == stem \o "_" \o Timestamp(t) \o ".wav"

\* archived_path when temp_audio_path.rename(archived_path) is reached:
\* the timestamp-suffixed name when the plain one exists
ArchivedPath(a, stem, t) ==
    IF AudioName(stem) \in DOMAIN a THEN AudioNameWithTimestamp(stem, t)
    ELSE AudioName(stem)

\* archive_audio_file(temp_audio_path, transcript_path) with a freshly
\* recorded temp file; rename replaces whatever file is at archived_path
ArchiveCall ==
    /\ ntemp < MaxTemps
    /\ \E stem \in Stems :
         LET bytes == ntemp + 1
             path == ArchivedPath(audio, stem, clock)
         IN  /\ audio' = [n \in DOMAIN audio \cup {path} |->
                             IF n = path THEN bytes ELSE audio[n]]
             /\ lost' = lost \cup (IF path \in DOMAIN audio THEN {audio[path]} ELSE {})
             /\ lastArchive' = [temp |-> bytes, path |-> path, temp_exists |-> FALSE]
    /\ ntemp' = ntemp + 1
    /\ UNCHANGED clock
    /\ UNCHANGED <<storeVars, sessVars, writeVars, dirVars, workVars, migVars, lifeVars>>

\* a second passes
Tick ==
    /\ clock < MaxTicks
    /\ clock' = clock + 1
    /\ UNCHANGED <<audio, ntemp, lastArchive, lost>>
    /\ UNCHANGED <<storeVars, sessVars, writeVars, dirVars, workVars, migVars, lifeVars>>

ArchNext == ArchiveCall \/ Tick

InitArchive ==
    /\ \E a \in InitAudio : ArchInitWith(a)
    /\ MigIdle
    /\ LifeInit
    /\ StoreInit /\ SessIdle /\ WriteInit /\ DirIdle /\ WorkIdle

SpecArchive == InitArchive /\ [][ArchNext]_vars

\* ------------------------------------------------------------------ claims: audio archive
\* C34: archive_audio_file never overwrites an existing archived audio
\* file: every file in audio/ keeps its content, a taken target name sends
\* the new audio to a timestamp-suffixed name, and after the call the temp
\* file is gone and its bytes are at the returned path.
C34_ArchiveNeverOverwrites ==
    /\ lost = {}
    /\ lastArchive.path # ""
         => /\ ~lastArchive.temp_exists
            /\ lastArchive.path \in DOMAIN audio
            /\ audio[lastArchive.path] = lastArchive.temp

====
